---- MODULE Spec2Model ----
(***************************************************************************)
(* A model of the dpl interpreter pipeline: Lexer -> Parser -> Interpreter *)
(* over a chain of SymbolTables and Contexts.                              *)
(*                                                                         *)
(* Conventions                                                             *)
(*   - a JS string is a sequence of one-character strings;                  *)
(*   - a Position is [i, line, col] (file and input are the same for every   *)
(*     Position of one run); NoPos is the null Position;                    *)
(*   - Contexts and SymbolTables are objects on a heap: a reference is the  *)
(*     index into st.ctxs / st.tables and 0 is the null reference;          *)
(*   - the payload (`value`) of a DPLValue is a one-field record whose      *)
(*     field names the JS type, so that JS `===` on payloads is equality;   *)
(*   - a Number payload is an integer (the programs of the model stay in    *)
(*     the integers).                                                       *)
(***************************************************************************)
EXTENDS Integers, Sequences, FiniteSets, TLC

\* ------------------------------------------------------------------ bounds
\* length of the token sequences (EOF not counted) the parser is given exhaustively
MaxTokens == 3
\* length of the source texts the lexer is given exhaustively
MaxChars == 4
\* number of Interpreter.visit / execute calls in one behaviour
MaxRuns == 2
\* iterations of one for/while loop after which the evaluation counts as diverging
MaxIter == 7

\* ----------------------------------------------------------- JS primitives
NoPos == [null |-> TRUE]
NullRef == 0

JsNull == [null |-> TRUE]
JsNum(n) == [num |-> n]
JsBool(b) == [bool |-> b]
JsStr(s) == [str |-> s]

Undefined == [type |-> "undefined"]
NullValue == [type |-> "null"]
NoError == [kind |-> "null"]
NoThrow == "none"

IsDefined(v) == v.type \notin {"undefined", "null"}

Digits == <<"0", "1", "2", "3", "4", "5", "6", "7", "8", "9">>

DigitValue(c) == CHOOSE d \in 0..9 : Digits[d + 1] = c

IsDigit(c) == \E d \in 1..10 : Digits[d] = c

RECURSIVE ParseDigits(_, _)
\* the integer written by the leading digits of s, after acc
ParseDigits(s, acc) ==
    IF s = <<>> \/ ~IsDigit(Head(s)) THEN acc
    ELSE ParseDigits(Tail(s), acc * 10 + DigitValue(Head(s)))

\* parseFloat on the lexemes of the NUMBER matcher, integer part
ParseFloat(s) == ParseDigits(s, 0)

RECURSIVE NatToString(_)
NatToString(n) ==
    IF n < 10 THEN <<Digits[n + 1]>>
    ELSE NatToString(n \div 10) \o <<Digits[(n % 10) + 1]>>

\* Number.prototype.toString on an integer
NumberToString(n) == IF n < 0 THEN <<"-">> \o NatToString(0 - n) ELSE NatToString(n)

\* JS `%`: the remainder takes the sign of the dividend
JsMod(a, b) ==
    LET ab == IF b < 0 THEN 0 - b ELSE b
    IN IF a < 0 THEN 0 - ((0 - a) % ab) ELSE a % ab

RECURSIVE JsPow(_, _)
JsPow(a, b) == IF b <= 0 THEN 1 ELSE a * JsPow(a, b - 1)

RECURSIVE BitOp(_, _, _)
\* bitwise and/or/xor of two naturals
BitOp(op, a, b) ==
    IF a = 0 /\ b = 0 THEN 0
    ELSE LET x == a % 2
             y == b % 2
             bit == CASE op = "AND" -> IF x = 1 /\ y = 1 THEN 1 ELSE 0
                      [] op = "OR" -> IF x = 1 \/ y = 1 THEN 1 ELSE 0
                      [] op = "XOR" -> IF x # y THEN 1 ELSE 0
         IN bit + 2 * BitOp(op, a \div 2, b \div 2)

\* UTF-16 code order of the characters the model's strings are made of
CharOrder == <<" ", "\"", "(", ")", "0", "1", "2", "3", "4", "5", "6", "7", "8", "9",
               "<", ">", "a", "b", "c", "d", "e", "f", "g", "h", "i", "j", "k", "l", "m",
               "n", "o", "p", "q", "r", "s", "t", "u", "v", "w", "x", "y", "z">>

CharCode(c) ==
    IF \E k \in 1..Len(CharOrder) : CharOrder[k] = c
    THEN CHOOSE k \in 1..Len(CharOrder) : CharOrder[k] = c
    ELSE 0

RECURSIVE StrLess(_, _)
\* JS `<` on two strings
StrLess(a, b) ==
    IF b = <<>> THEN FALSE
    ELSE IF a = <<>> THEN TRUE
    ELSE IF Head(a) = Head(b) THEN StrLess(Tail(a), Tail(b))
    ELSE CharCode(Head(a)) < CharCode(Head(b))

RECURSIVE StrRepeat(_, _)
StrRepeat(s, n) == IF n <= 0 THEN <<>> ELSE s \o StrRepeat(s, n - 1)


\* ------------------------------------------------------------ diagnostics
\* new RuntimeError(posStart, posEnd, message, context)
RuntimeError(posStart, posEnd, message, context) ==
    [kind |-> "RuntimeError", posStart |-> posStart, posEnd |-> posEnd,
     message |-> message, context |-> context]

UndefinedOpError(posStart, posEnd, message, context) ==
    [kind |-> "UndefinedOpError", posStart |-> posStart, posEnd |-> posEnd,
     message |-> message, context |-> context]

SyntaxError(posStart, posEnd, message) ==
    [kind |-> "SyntaxError", posStart |-> posStart, posEnd |-> posEnd, message |-> message]

IllegalCharacterError(posStart, posEnd, message) ==
    [kind |-> "IllegalCharacterError", posStart |-> posStart, posEnd |-> posEnd,
     message |-> message]

IsRuntimeError(e) == e.kind \in {"RuntimeError", "UndefinedOpError"}

\* `Undefined behavior for ${this.type} ${op} ${other.type}`
UndefinedBinaryMsg(l, op, r) ==
    [text |-> "Undefined behavior for", left |-> l, op |-> op, right |-> r]

\* `Undefined behavior for ${op} ${this.type}`
UndefinedUnaryMsg(op, t) == [text |-> "Undefined behavior for", op |-> op, operand |-> t]

\* ------------------------------------------------------------ value model
DPLNone ==
    [type |-> "NONE", value |-> JsNull, posStart |-> NoPos, posEnd |-> NoPos,
     context |-> NullRef]

DPLNumber(n) ==
    [type |-> "NUMBER", value |-> JsNum(n), posStart |-> NoPos, posEnd |-> NoPos,
     context |-> NullRef]

DPLBool(b) ==
    [type |-> "BOOL", value |-> JsBool(b), posStart |-> NoPos, posEnd |-> NoPos,
     context |-> NullRef]

DPLString(s) ==
    [type |-> "STRING", value |-> JsStr(s), posStart |-> NoPos, posEnd |-> NoPos,
     context |-> NullRef]

\* definedIn is a history field: the Context visitFnDefNode built the function in.
\* No operation of the model reads it.
\* name ?? "<anonymous>"
Anonymous == <<"<", "a", "n", "o", "n", "y", "m", "o", "u", "s", ">">>

DPLFunction(name, body, params) ==
    [type |-> "FN", value |-> JsNull, posStart |-> NoPos, posEnd |-> NoPos,
     context |-> NullRef, class |-> "DPLFunction", name |-> name, body |-> body,
     params |-> params, definedIn |-> NullRef]

DPLBuiltInFunction(name) ==
    [type |-> "FN", value |-> JsNull, posStart |-> NoPos, posEnd |-> NoPos,
     context |-> NullRef, class |-> "DPLBuiltInFunction", name |-> name]

setPos(v, start, end) == [v EXCEPT !.posStart = start, !.posEnd = end]

setContext(v, context) == [v EXCEPT !.context = context]

\* DPLValue.copy of each class
copy(v) ==
    CASE v.type = "NONE" -> DPLNone
      [] v.type = "NUMBER" -> setPos(DPLNumber(v.value.num), v.posStart, v.posEnd)
      [] v.type = "BOOL" -> setPos(DPLBool(v.value.bool), v.posStart, v.posEnd)
      [] v.type = "STRING" -> setPos(DPLString(v.value.str), v.posStart, v.posEnd)
      [] v.type = "FN" -> v

\* DPLValue.toString of each class
toString(v) ==
    CASE v.type = "NONE" -> <<"n", "o", "n", "e">>
      [] v.type = "NUMBER" -> NumberToString(v.value.num)
      [] v.type = "BOOL" ->
            IF v.value.bool THEN <<"t", "r", "u", "e">> ELSE <<"f", "a", "l", "s", "e">>
      [] v.type = "STRING" -> v.value.str
      [] v.type = "FN" /\ v.class = "DPLFunction" ->
            <<"<", "f", "u", "n", "c", "t", "i", "o", "n", " ">> \o v.name \o <<">">>
      [] v.type = "FN" /\ v.class = "DPLBuiltInFunction" ->
            <<"<", "b", "u", "i", "l", "t", "-", "i", "n", " ",
              "f", "u", "n", "c", "t", "i", "o", "n", " ">> \o v.name \o <<">">>

\* a [value, error] pair returned by an operator
Ok(v) == [value |-> v, error |-> NoError]
Err(e) == [value |-> NullValue, error |-> e]

\* handleEquality: [matched, pair]; matched is FALSE where the source returns null
handleEquality(value, op, other) ==
    CASE op = "EQ" -> [matched |-> TRUE, pair |-> Ok(DPLBool(value.value = other.value))]
      [] op = "NEQ" -> [matched |-> TRUE, pair |-> Ok(DPLBool(value.value # other.value))]
      [] OTHER -> [matched |-> FALSE, pair |-> Ok(Undefined)]

\* BaseDPLValue.unaryOp over the unaryOps table of each class
unaryOp(this, op) ==
    LET stamp(v) == Ok(setContext(setPos(v, this.posStart, this.posEnd), this.context))
        undefinedOp == Err(UndefinedOpError(this.posStart, this.posEnd,
                                            UndefinedUnaryMsg(op, this.type), this.context))
    IN CASE this.type = "NONE" /\ op = "NOT" -> stamp(DPLBool(TRUE))
         [] this.type = "NUMBER" /\ op = "PLUS" -> stamp(copy(this))
         [] this.type = "NUMBER" /\ op = "MINUS" -> stamp(DPLNumber(0 - this.value.num))
         [] this.type = "NUMBER" /\ op = "NOT" -> stamp(DPLNumber((0 - this.value.num) - 1))
         [] this.type = "BOOL" /\ op = "NOT" -> Ok(DPLBool(~this.value.bool))
         [] OTHER -> undefinedOp

\* binaryNumberOps whose DIV and MOD errors span both operands
binaryNumberOpsWideSpan(this, op, other) ==
    LET a == this.value.num
        b == other.value.num
        stamp(v) == Ok(setContext(setPos(v, this.posStart, other.posEnd), this.context))
        ctxOnly(v) == Ok(setContext(v, this.context))
    IN CASE op = "PLUS" -> stamp(DPLNumber(a + b))
         [] op = "MINUS" -> stamp(DPLNumber(a - b))
         [] op = "MUL" -> stamp(DPLNumber(a * b))
         [] op = "DIV" ->
               IF b = 0
               THEN Err(RuntimeError(this.posStart, other.posEnd,
                                     [text |-> "Division by 0"], this.context))
               ELSE ctxOnly(DPLNumber(a \div b))
         [] op = "MOD" ->
               IF b = 0
               THEN Err(RuntimeError(this.posStart, other.posEnd,
                                     [text |-> "Modulus by 0"], this.context))
               ELSE ctxOnly(DPLNumber(JsMod(a, b)))
         [] op = "POW" ->
               IF a = 0 /\ b = 0
               THEN Err(RuntimeError(this.posStart, other.posEnd,
                                     [text |-> "0 ^ 0 is undefined"], this.context))
               ELSE ctxOnly(DPLNumber(JsPow(a, b)))
         [] op \in {"AND", "OR", "XOR"} -> stamp(DPLNumber(BitOp(op, a, b)))
         [] op = "LT" -> stamp(DPLBool(a < b))
         [] op = "LE" -> stamp(DPLBool(a <= b))
         [] op = "GT" -> stamp(DPLBool(a > b))
         [] op = "GE" -> stamp(DPLBool(a >= b))

\* DPLNumber.binaryNumberOps[op](other), already stamped as DPLNumber.binaryOp does
binaryNumberOps(this, op, other) ==
    LET a == this.value.num
        b == other.value.num
        stamp(v) == Ok(setContext(setPos(v, this.posStart, other.posEnd), this.context))
        ctxOnly(v) == Ok(setContext(v, this.context))
    IN CASE op = "PLUS" -> stamp(DPLNumber(a + b))
         [] op = "MINUS" -> stamp(DPLNumber(a - b))
         [] op = "MUL" -> stamp(DPLNumber(a * b))
         [] op = "DIV" ->
               IF b = 0
               THEN Err(RuntimeError(other.posStart, other.posEnd,
                                     [text |-> "Division by 0"], this.context))
               ELSE ctxOnly(DPLNumber(a \div b))
         [] op = "MOD" ->
               IF b = 0
               THEN Err(RuntimeError(other.posStart, other.posEnd,
                                     [text |-> "Modulus by 0"], this.context))
               ELSE ctxOnly(DPLNumber(JsMod(a, b)))
         [] op = "POW" ->
               IF a = 0 /\ b = 0
               THEN Err(RuntimeError(this.posStart, other.posEnd,
                                     [text |-> "0 ^ 0 is undefined"], this.context))
               ELSE ctxOnly(DPLNumber(JsPow(a, b)))
         [] op \in {"AND", "OR", "XOR"} -> stamp(DPLNumber(BitOp(op, a, b)))
         [] op = "LT" -> stamp(DPLBool(a < b))
         [] op = "LE" -> stamp(DPLBool(a <= b))
         [] op = "GT" -> stamp(DPLBool(a > b))
         [] op = "GE" -> stamp(DPLBool(a >= b))

BinaryNumberOpNames ==
    {"PLUS", "MINUS", "MUL", "DIV", "MOD", "POW", "AND", "OR", "XOR", "LT", "LE", "GT", "GE"}

\* DPLString.times
times(this, other) ==
    IF other.value.num < 0
    THEN Err(RuntimeError(other.posStart, other.posEnd,
                          [text |-> "Cannot repeat STRING a negative number of times"],
                          this.context))
    ELSE Ok(setContext(DPLString(StrRepeat(this.value.str, other.value.num)), this.context))

\* DPLString.comp
comp(this, other, result) ==
    Ok(setContext(setPos(DPLBool(result), this.posStart, other.posEnd), this.context))

\* the binaryOp method of each value class
binaryOp(this, op, other) ==
    LET equality == handleEquality(this, op, other)
        undefinedOp(s, e) ==
            Err(UndefinedOpError(s, e, UndefinedBinaryMsg(this.type, op, other.type),
                                 this.context))
    IN CASE this.type = "NONE" ->
              IF equality.matched THEN equality.pair
              ELSE undefinedOp(this.posStart, this.posEnd)
         [] this.type = "NUMBER" ->
              IF equality.matched THEN equality.pair
              ELSE IF other.type # "NUMBER" THEN undefinedOp(other.posStart, other.posEnd)
              ELSE IF op \notin BinaryNumberOpNames
                   THEN undefinedOp(this.posStart, other.posEnd)
              ELSE binaryNumberOps(this, op, other)
         [] this.type = "BOOL" ->
              IF equality.matched THEN equality.pair
              ELSE IF other.type # "BOOL" THEN undefinedOp(this.posStart, other.posEnd)
              ELSE CASE op = "AND" ->
                          Ok(setContext(DPLBool(this.value.bool /\ other.value.bool),
                                        this.context))
                     [] op = "OR" ->
                          Ok(setContext(DPLBool(this.value.bool \/ other.value.bool),
                                        this.context))
                     [] op = "XOR" ->
                          Ok(setContext(DPLBool(this.value.bool # other.value.bool),
                                        this.context))
                     [] OTHER -> undefinedOp(this.posStart, other.posEnd)
         [] this.type = "STRING" ->
              IF equality.matched THEN equality.pair
              ELSE IF op = "PLUS"
                   THEN Ok(setContext(DPLString(this.value.str \o toString(other)),
                                      this.context))
              ELSE IF other.type = "STRING" /\ op \in {"LT", "LE", "GT", "GE"}
                   THEN LET a == this.value.str
                            b == other.value.str
                        IN CASE op = "LT" -> comp(this, other, StrLess(a, b))
                             [] op = "LE" -> comp(this, other, ~StrLess(b, a))
                             [] op = "GT" -> comp(this, other, StrLess(b, a))
                             [] op = "GE" -> comp(this, other, ~StrLess(a, b))
              ELSE IF other.type = "NUMBER" /\ op = "MUL" THEN times(this, other)
              ELSE undefinedOp(this.posStart, other.posEnd)
         [] this.type = "FN" -> undefinedOp(this.posStart, other.posEnd)

\* ------------------------------------------------------------------ AST
NullNode == [type |-> "null"]
NullToken == [type |-> "null"]

\* new Token({ type, value, posStart, posEnd })
Token(type, value, posStart, posEnd) ==
    [type |-> type, value |-> value, posStart |-> posStart, posEnd |-> posEnd]

ValueNode(token) ==
    [type |-> "ValueNode", token |-> token, posStart |-> token.posStart,
     posEnd |-> token.posEnd]

UnaryOpNode(op, child) ==
    [type |-> "UnaryOpNode", op |-> op, child |-> child, posStart |-> op.posStart,
     posEnd |-> child.posEnd]

BinaryOpNode(op, left, right) ==
    [type |-> "BinaryOpNode", op |-> op, left |-> left, right |-> right,
     posStart |-> left.posStart, posEnd |-> right.posEnd]

VarAccessNode(identifier) ==
    [type |-> "VarAccessNode", identifier |-> identifier,
     posStart |-> identifier.posStart, posEnd |-> identifier.posEnd]

VarAssignNode(identifier, value) ==
    [type |-> "VarAssignNode", identifier |-> identifier, value |-> value,
     posStart |-> identifier.posStart, posEnd |-> value.posEnd]

IfNode(condition, thenBranch, elseBranch) ==
    [type |-> "IfNode", condition |-> condition, thenBranch |-> thenBranch,
     elseBranch |-> elseBranch, posStart |-> condition.posStart,
     posEnd |-> IF elseBranch = NullNode THEN thenBranch.posEnd ELSE elseBranch.posEnd]

ForNode(varName, start, end, step, body) ==
    [type |-> "ForNode", varName |-> varName, start |-> start, end |-> end,
     step |-> step, body |-> body, posStart |-> varName.posStart, posEnd |-> body.posEnd]

WhileNode(condition, body) ==
    [type |-> "WhileNode", condition |-> condition, body |-> body,
     posStart |-> condition.posStart, posEnd |-> body.posEnd]

FnDefNode(name, params, body) ==
    [type |-> "FnDefNode", name |-> name, params |-> params, body |-> body,
     posStart |-> IF name # NullToken THEN name.posStart
                  ELSE IF params # <<>> THEN params[1].posStart ELSE body.posStart,
     posEnd |-> body.posEnd]

CallNode(fn, args) ==
    [type |-> "CallNode", fn |-> fn, args |-> args, posStart |-> fn.posStart,
     posEnd |-> IF args # <<>> THEN args[Len(args)].posEnd ELSE fn.posEnd]

\* new StatementsNode(posStart, posEnd, statements), as Parser.statements builds it
StatementsNode(posStart, posEnd, statements) ==
    [type |-> "StatementsNode", statements |-> statements, posStart |-> posStart,
     posEnd |-> posEnd]

\* ------------------------------------------------- SymbolTable and Context
EmptySymbols == [n \in {} |-> Undefined]

\* new SymbolTable(parent)
SymbolTable(parent) == [symbols |-> EmptySymbols, parent |-> parent]

\* new Context(name, parent, parentEntryPos), its symbolTable field set by the caller
Context(name, parent, parentEntryPos, symbolTable) ==
    [name |-> name, parent |-> parent, parentEntryPos |-> parentEntryPos,
     symbolTable |-> symbolTable]

\* a get that looks at the table itself only
getLocalOnly(tables, this, name) ==
    IF name \in DOMAIN tables[this].symbols THEN tables[this].symbols[name] ELSE NullValue

RECURSIVE get(_, _, _)
\* SymbolTable.get on table `this` of the heap `tables`; NullValue is null
get(tables, this, name) ==
    LET table == tables[this]
        found == name \in DOMAIN table.symbols
    IN IF ~found /\ table.parent # NullRef THEN get(tables, table.parent, name)
       ELSE IF found THEN table.symbols[name] ELSE NullValue

RECURSIVE Binder(_, _, _)
\* the nearest table on the parent chain of `this` that binds name, or NullRef
Binder(tables, this, name) ==
    IF name \in DOMAIN tables[this].symbols THEN this
    ELSE IF tables[this].parent = NullRef THEN NullRef
    ELSE Binder(tables, tables[this].parent, name)

\* a set that rebinds the nearest enclosing binding when there is one
setNearest(tables, this, name, value) ==
    LET target == IF Binder(tables, this, name) = NullRef THEN this
                  ELSE Binder(tables, this, name)
    IN [tables EXCEPT ![target].symbols =
           [n \in (DOMAIN @) \cup {name} |-> IF n = name THEN value ELSE @[n]]]

\* SymbolTable.set
set(tables, this, name, value) ==
    [tables EXCEPT ![this].symbols =
        [n \in (DOMAIN @) \cup {name} |-> IF n = name THEN value ELSE @[n]]]

\* SymbolTable.remove
remove(tables, this, name) ==
    [tables EXCEPT ![this].symbols = [n \in (DOMAIN @) \ {name} |-> @[n]]]

\* ------------------------------------------------------------ Interpreter
(***************************************************************************)
(* The evaluator threads the heap st = [tables, ctxs, out, inp, log]:      *)
(* the SymbolTables, the Contexts, the lines written to the output sink,   *)
(* the lines waiting in the input sink, and a history of events.  A result *)
(* is [st, value, error, thrown]: a RuntimeResult, or a host exception     *)
(* (thrown # NoThrow) that unwinds every caller.                           *)
(***************************************************************************)
RECURSIVE generateTraceback(_, _, _, _)
\* RuntimeError.generateTraceback: the while (ctx) loop at Context ctx with
\* position pos; str is the frames put together so far, each `File ..., line ...,
\* column ... in <name>` kept as [pos, name]
generateTraceback(ctxs, pos, ctx, str) ==
    IF ctx = NullRef THEN str
    ELSE generateTraceback(ctxs, ctxs[ctx].parentEntryPos, ctxs[ctx].parent,
                           <<[pos |-> pos, name |-> ctxs[ctx].name]>> \o str)

Success(st, value) == [st |-> st, value |-> value, error |-> NoError, thrown |-> NoThrow]

Failure(st, error) == [st |-> st, value |-> Undefined, error |-> error, thrown |-> NoThrow]

Throw(st, exception) ==
    [st |-> st, value |-> Undefined, error |-> NoError, thrown |-> exception]

Thrown(r) == r.thrown # NoThrow

HasError(r) == r.error # NoError

Record(st, event) == [st EXCEPT !.log = Append(@, event)]

VALUE == <<"v", "a", "l", "u", "e">>
PRINT == <<"p", "r", "i", "n", "t">>
PROMPT == <<"p", "r", "o", "m", "p", "t">>
PI == <<"p", "i">>

RECURSIVE Visit(_, _, _, _)
RECURSIVE VisitArgs(_, _, _, _, _, _)
RECURSIVE ForLoop(_, _, _, _, _, _, _, _)
RECURSIVE WhileLoop(_, _, _, _, _)
RECURSIVE call(_, _, _, _)

visitValueNode(node, context, st) ==
    LET t == node.token.type
        made == CASE t = "NONE" -> DPLNone
                  [] t = "NUMBER" -> DPLNumber(ParseFloat(node.token.value))
                  [] t = "BOOL" -> DPLBool(node.token.value = <<"t", "r", "u", "e">>)
                  [] t = "STRING" -> DPLString(node.token.value)
                  [] OTHER -> Undefined
    IN IF t \notin {"NONE", "NUMBER", "BOOL", "STRING"}
       THEN Failure(st, RuntimeError(node.token.posStart, node.token.posEnd,
                                     [text |-> "Unknown token type", type |-> t], context))
       ELSE Success(st, setContext(setPos(made, node.posStart, node.posEnd), context))

visitUnaryOpNode(node, context, st, d) ==
    LET finish(child, r) ==
            IF r.error # NoError THEN Failure(child.st, r.error)
            ELSE Success(child.st, setPos(r.value, node.posStart, node.posEnd))
        afterChild(child) ==
            IF Thrown(child) THEN child
            ELSE IF HasError(child) THEN Failure(child.st, child.error)
            ELSE finish(child, unaryOp(child.value, node.op.type))
    IN afterChild(Visit(node.child, context, st, d))

\* a visitBinaryOpNode without the `if (res.error) return res` after the left operand
visitBinaryOpNodeNoLeftCheck(node, context, st, d) ==
    LET finish(right, r) ==
            IF r.error # NoError THEN Failure(right.st, r.error)
            ELSE Success(right.st, setPos(r.value, node.posStart, node.posEnd))
        afterRight(left, right) ==
            IF Thrown(right) THEN right
            ELSE IF HasError(left) THEN Failure(right.st, left.error)
            ELSE IF HasError(right) THEN Failure(right.st, right.error)
            ELSE finish(right, binaryOp(left.value, node.op.type, right.value))
        afterLeft(left) ==
            IF Thrown(left) THEN left
            ELSE afterRight(left, Visit(node.right, context, left.st, d))
    IN afterLeft(Visit(node.left, context, st, d))

visitBinaryOpNode(node, context, st, d) ==
    LET finish(right, r) ==
            IF r.error # NoError THEN Failure(right.st, r.error)
            ELSE Success(right.st, setPos(r.value, node.posStart, node.posEnd))
        afterRight(left, right) ==
            IF Thrown(right) THEN right
            ELSE IF HasError(right) THEN Failure(right.st, right.error)
            ELSE finish(right, binaryOp(left.value, node.op.type, right.value))
        afterLeft(left) ==
            IF Thrown(left) THEN left
            ELSE IF HasError(left) THEN Failure(left.st, left.error)
            ELSE afterRight(left, Visit(node.right, context, left.st, d))
    IN afterLeft(Visit(node.left, context, st, d))

visitVarAccessNode(node, context, st) ==
    LET found(value) ==
            IF value = NullValue
            THEN Failure(st, RuntimeError(node.posStart, node.posEnd,
                                          [text |-> "Undefined variable",
                                           name |-> node.identifier.value], context))
            ELSE Success(st, setContext(setPos(copy(value), node.posStart, node.posEnd),
                                        context))
    IN found(get(st.tables, st.ctxs[context].symbolTable, node.identifier.value))

visitVarAssignNode(node, context, st, d) ==
    LET afterValue(value) ==
            IF Thrown(value) THEN value
            ELSE IF HasError(value) THEN Failure(value.st, value.error)
            ELSE Success([value.st EXCEPT !.tables =
                             set(@, value.st.ctxs[context].symbolTable,
                                 node.identifier.value, value.value)],
                         value.value)
    IN afterValue(Visit(node.value, context, st, d))

\* a visitIfNode that takes a condition that is not a Bool for false
visitIfNodeNoTypeCheck(node, context, st, d) ==
    LET branch(r) == IF Thrown(r) THEN r
                     ELSE IF HasError(r) THEN Failure(r.st, r.error)
                     ELSE Success(r.st, r.value)
        afterCondition(condition) ==
            IF Thrown(condition) THEN condition
            ELSE IF HasError(condition) THEN Failure(condition.st, condition.error)
            ELSE IF condition.value.type = "BOOL" /\ condition.value.value.bool
                 THEN branch(Visit(node.thenBranch, context, condition.st, d))
            ELSE IF node.elseBranch # NullNode
                 THEN branch(Visit(node.elseBranch, context, condition.st, d))
            ELSE Success(condition.st,
                         setContext(setPos(DPLNone, node.posStart, node.posEnd), context))
    IN afterCondition(Visit(node.condition, context, st, d))

visitIfNode(node, context, st, d) ==
    LET branch(r) == IF Thrown(r) THEN r
                     ELSE IF HasError(r) THEN Failure(r.st, r.error)
                     ELSE Success(r.st, r.value)
        afterCondition(condition) ==
            IF Thrown(condition) THEN condition
            ELSE IF HasError(condition) THEN Failure(condition.st, condition.error)
            ELSE IF condition.value.type # "BOOL"
                 THEN Failure(condition.st,
                              RuntimeError(condition.value.posStart, condition.value.posEnd,
                                           [text |-> "Condition should be type BOOL, got",
                                            type |-> condition.value.type], context))
            ELSE IF condition.value.value.bool
                 THEN branch(Visit(node.thenBranch, context, condition.st, d))
            ELSE IF node.elseBranch # NullNode
                 THEN branch(Visit(node.elseBranch, context, condition.st, d))
            ELSE Success(condition.st,
                         setContext(setPos(DPLNone, node.posStart, node.posEnd), context))
    IN afterCondition(Visit(node.condition, context, st, d))

\* a ForLoop that binds the loop variable in globalSymbolTable
ForLoopGlobal(node, context, st, i, end, step, k, d) ==
    LET afterBody(body) ==
            IF Thrown(body) THEN body
            ELSE IF HasError(body) THEN Failure(body.st, body.error)
            ELSE ForLoop(node, context, body.st, i + step, end, step, k + 1, d)
    IN IF ~(IF step > 0 THEN i <= end ELSE i >= end)
       THEN Success(st, setContext(setPos(DPLNone, node.posStart, node.posEnd), context))
       ELSE IF k > MaxIter THEN Throw(st, "diverges")
       ELSE afterBody(Visit(node.body, context,
                            [st EXCEPT !.tables = set(@, 1, node.varName.value, DPLNumber(i))],
                            d))

\* a ForLoop that leaves the end value out
ForLoopExclusive(node, context, st, i, end, step, k, d) ==
    LET afterBody(body) ==
            IF Thrown(body) THEN body
            ELSE IF HasError(body) THEN Failure(body.st, body.error)
            ELSE ForLoop(node, context, body.st, i + step, end, step, k + 1, d)
    IN IF ~(IF step > 0 THEN i < end ELSE i > end)
       THEN Success(st, setContext(setPos(DPLNone, node.posStart, node.posEnd), context))
       ELSE IF k > MaxIter THEN Throw(st, "diverges")
       ELSE afterBody(Visit(node.body, context,
                            [st EXCEPT !.tables =
                                set(@, st.ctxs[context].symbolTable, node.varName.value,
                                    DPLNumber(i))],
                            d))

\* a ForLoop that reads its counter back from the loop variable after the body
ForLoopReread(node, context, st, i, end, step, k, d) ==
    LET afterBody(body) ==
            IF Thrown(body) THEN body
            ELSE IF HasError(body) THEN Failure(body.st, body.error)
            ELSE ForLoop(node, context, body.st,
                         get(body.st.tables, body.st.ctxs[context].symbolTable,
                             node.varName.value).value.num + step,
                         end, step, k + 1, d)
    IN IF ~(IF step > 0 THEN i <= end ELSE i >= end)
       THEN Success(st, setContext(setPos(DPLNone, node.posStart, node.posEnd), context))
       ELSE IF k > MaxIter THEN Throw(st, "diverges")
       ELSE afterBody(Visit(node.body, context,
                            [st EXCEPT !.tables =
                                set(@, st.ctxs[context].symbolTable, node.varName.value,
                                    DPLNumber(i))],
                            d))

\* the while loop of visitForNode, entered for the k-th time with counter i
ForLoop(node, context, st, i, end, step, k, d) ==
    LET afterBody(body) ==
            IF Thrown(body) THEN body
            ELSE IF HasError(body) THEN Failure(body.st, body.error)
            ELSE ForLoop(node, context, body.st, i + step, end, step, k + 1, d)
    IN IF ~(IF step > 0 THEN i <= end ELSE i >= end)
       THEN Success(st, setContext(setPos(DPLNone, node.posStart, node.posEnd), context))
       ELSE IF k > MaxIter THEN Throw(st, "diverges")
       ELSE afterBody(Visit(node.body, context,
                            [st EXCEPT !.tables =
                                set(@, st.ctxs[context].symbolTable, node.varName.value,
                                    DPLNumber(i))],
                            d))

visitForNode(node, context, st, d) ==
    LET typeError(st3, what, v) ==
            Failure(st3, RuntimeError(v.posStart, v.posEnd,
                                      [text |-> "should be type NUMBER, got", what |-> what,
                                       type |-> v.type], context))
        loop(startValue, endValue, stepValue, st3) ==
            IF startValue.type # "NUMBER" THEN typeError(st3, "Start value", startValue)
            ELSE IF endValue.type # "NUMBER" THEN typeError(st3, "End value", endValue)
            ELSE IF stepValue = Undefined
                 THEN Throw(st3, "TypeError: Cannot read properties of undefined")
            ELSE IF stepValue.type # "NUMBER" THEN typeError(st3, "Step value", stepValue)
            ELSE ForLoop(node, context, st3, startValue.value.num, endValue.value.num,
                         stepValue.value.num, 1, d)
        \* no `if (res.error) return res` follows the step: the checks go on
        afterStep(startValue, endValue, stepVisit) ==
            IF Thrown(stepVisit) THEN stepVisit
            ELSE loop(startValue.value, endValue.value, stepVisit.value, stepVisit.st)
        \* node.step ? res.register(this.visit(node.step, context)) : new DPLNumber(1)...
        afterEnd(startValue, endValue) ==
            IF Thrown(endValue) THEN endValue
            ELSE IF HasError(endValue) THEN Failure(endValue.st, endValue.error)
            ELSE IF node.step # NullNode
                 THEN afterStep(startValue, endValue,
                                Visit(node.step, context, endValue.st, d))
            ELSE loop(startValue.value, endValue.value,
                      setContext(setPos(DPLNumber(1), endValue.value.posStart,
                                        endValue.value.posEnd), context),
                      endValue.st)
        afterStart(startValue) ==
            IF Thrown(startValue) THEN startValue
            ELSE IF HasError(startValue) THEN Failure(startValue.st, startValue.error)
            ELSE afterEnd(startValue, Visit(node.end, context, startValue.st, d))
    IN afterStart(Visit(node.start, context, st, d))

\* the while (true) loop of visitWhileNode, entered for the k-th time
WhileLoop(node, context, st, k, d) ==
    LET afterBody(body) ==
            IF Thrown(body) THEN body
            ELSE IF HasError(body) THEN Failure(body.st, body.error)
            ELSE WhileLoop(node, context, body.st, k + 1, d)
        afterCondition(condition) ==
            IF Thrown(condition) THEN condition
            ELSE IF HasError(condition) THEN Failure(condition.st, condition.error)
            ELSE IF condition.value.type # "BOOL"
                 THEN Failure(condition.st,
                              RuntimeError(condition.value.posStart, condition.value.posEnd,
                                           [text |-> "Condition should be type BOOL, got",
                                            type |-> condition.value.type], context))
            ELSE IF ~condition.value.value.bool
                 THEN Success(condition.st,
                              setContext(setPos(DPLNone, node.posStart, node.posEnd),
                                         context))
            ELSE IF k > MaxIter THEN Throw(condition.st, "diverges")
            ELSE afterBody(Visit(node.body, context, condition.st, d))
    IN afterCondition(Visit(node.condition, context, st, d))

visitWhileNode(node, context, st, d) == WhileLoop(node, context, st, 1, d)

visitFnDefNode(node, context, st) ==
    LET define(fn) ==
            IF node.name # NullToken
            THEN Success([st EXCEPT !.tables =
                             set(@, st.ctxs[context].symbolTable, node.name.value, fn)], fn)
            ELSE Success(st, fn)
    IN define([setContext(setPos(DPLFunction(IF node.name # NullToken THEN node.name.value
                                             ELSE Anonymous,
                                             node.body,
                                             [k \in 1..Len(node.params) |->
                                                 node.params[k].value]),
                                 node.posStart, node.posEnd), context)
                  EXCEPT !.definedIn = context])

\* the for (const arg of node.args) loop of visitCallNode, from argument k on
VisitArgs(node, context, st, k, args, d) ==
    LET afterArg(arg) ==
            IF Thrown(arg) THEN arg
            ELSE IF HasError(arg) THEN Failure(arg.st, arg.error)
            ELSE VisitArgs(node, context, arg.st, k + 1, Append(args, arg.value), d)
    IN IF k > Len(node.args) THEN [Success(st, Undefined) EXCEPT !.value = args]
       ELSE afterArg(Visit(node.args[k], context, st, d))

\* a visitCallNode that goes on to the arguments after a failed callee
visitCallNodeNoCalleeCheck(node, context, st, d) ==
    LET afterCall(r) ==
            IF Thrown(r) THEN r
            ELSE IF HasError(r) THEN Failure(r.st, r.error)
            ELSE Success(r.st, r.value)
        afterArgs(callee, args) ==
            IF Thrown(args) THEN args
            ELSE IF HasError(callee) THEN Failure(args.st, callee.error)
            ELSE IF HasError(args) THEN Failure(args.st, args.error)
            ELSE afterCall(call(setPos(copy(callee.value), node.posStart, node.posEnd),
                                args.value, args.st, d))
        afterCallee(callee) ==
            IF Thrown(callee) THEN callee
            ELSE afterArgs(callee, VisitArgs(node, context, callee.st, 1, <<>>, d))
    IN afterCallee(Visit(node.fn, context, st, d))

visitCallNode(node, context, st, d) ==
    LET afterCall(r) ==
            IF Thrown(r) THEN r
            ELSE IF HasError(r) THEN Failure(r.st, r.error)
            ELSE Success(r.st, r.value)
        afterArgs(callee, args) ==
            IF Thrown(args) THEN args
            ELSE IF HasError(args) THEN Failure(args.st, args.error)
            ELSE afterCall(call(setPos(copy(callee.value), node.posStart, node.posEnd),
                                args.value, args.st, d))
        afterCallee(callee) ==
            IF Thrown(callee) THEN callee
            ELSE IF HasError(callee) THEN Failure(callee.st, callee.error)
            ELSE afterArgs(callee, VisitArgs(node, context, callee.st, 1, <<>>, d))
    IN afterCallee(Visit(node.fn, context, st, d))

\* BaseDPLFunction.generateContext: [st, context], or thrown when this.context is null
generateContext(this, st) ==
    IF this.context = NullRef
    THEN [st |-> st, context |-> NullRef,
          thrown |-> "TypeError: Cannot read properties of null"]
    ELSE [st |-> [st EXCEPT
                    !.ctxs = Append(@, Context(this.name, this.context, this.posStart,
                                               Len(st.tables) + 1)),
                    !.tables = Append(@, SymbolTable(st.ctxs[this.context].symbolTable))],
          context |-> Len(st.ctxs) + 1,
          thrown |-> NoThrow]

\* BaseDPLFunction.checkArgs: the RuntimeError, or NoError for null
checkArgs(this, names, args) ==
    IF Len(args) # Len(names)
    THEN RuntimeError(this.posStart, this.posEnd,
                      [text |-> "Expected arguments but got", expected |-> Len(names),
                       got |-> Len(args)], this.context)
    ELSE NoError

RECURSIVE populateArgs(_, _, _, _, _)
\* BaseDPLFunction.populateArgs, from argument i on (1-based)
populateArgs(names, args, context, st, i) ==
    IF i > Len(args) THEN st
    ELSE populateArgs(names, args, context,
                      [st EXCEPT !.tables = set(@, st.ctxs[context].symbolTable, names[i],
                                                setContext(args[i], context))],
                      i + 1)

\* BaseDPLFunction.handleArgs: [st, error]
handleArgs(this, names, args, context, st) ==
    LET checked(error) ==
            IF error # NoError THEN [st |-> st, error |-> error]
            ELSE [st |-> populateArgs(names, args, context, st, 1), error |-> NoError]
    IN checked(checkArgs(this, names, args))

\* DPLFunction.call after generateContext
callFunction(this, args, context, st, d) ==
    LET afterBody(body) ==
            IF Thrown(body) THEN body
            ELSE IF HasError(body) THEN Failure(body.st, body.error)
            ELSE Success(body.st, body.value)
        afterArgs(handled) ==
            IF handled.error # NoError THEN Failure(handled.st, handled.error)
            ELSE afterBody(Visit(this.body, context, handled.st, d))
    IN afterArgs(handleArgs(this, this.params, args, context, st))

\* DPLBuiltInFunction.callPrint
callPrint(this, args, context, st) ==
    LET write(handled, value) ==
            IF value = NullValue
            THEN Throw(handled.st, "TypeError: Cannot read properties of null")
            ELSE Success([handled.st EXCEPT !.out = Append(@, toString(value))], value)
        \* the error of handleArgs is dropped
        afterArgs(handled) ==
            write(handled, get(handled.st.tables, handled.st.ctxs[context].symbolTable, VALUE))
    IN afterArgs(handleArgs(this, <<VALUE>>, args, context, st))

\* DPLBuiltInFunction.callPrompt: readlineSync.question writes the query and reads a line
callPrompt(this, args, context, st) ==
    LET question(handled, value) ==
            IF value = NullValue
            THEN Throw(handled.st, "TypeError: Cannot read properties of null")
            ELSE Success([handled.st EXCEPT !.out = Append(@, toString(value)),
                                            !.inp = IF @ = <<>> THEN @ ELSE Tail(@)],
                         DPLString(IF handled.st.inp = <<>> THEN <<>>
                                   ELSE Head(handled.st.inp)))
        afterArgs(handled) ==
            question(handled,
                     get(handled.st.tables, handled.st.ctxs[context].symbolTable, VALUE))
    IN afterArgs(handleArgs(this, <<VALUE>>, args, context, st))

\* DPLBuiltInFunction.call after generateContext
callBuiltIn(this, args, context, st) ==
    CASE this.name = PRINT -> callPrint(this, args, context, st)
      [] this.name = PROMPT -> callPrint(this, args, context, st)
      [] OTHER -> Failure(st, RuntimeError(this.posStart, this.posEnd,
                                           [text |-> "Undefined BuiltInFunction",
                                            name |-> this.name], this.context))

\* value.call(args) of each class; the history gets a call and a return event
call(this, args, st, d) ==
    LET returned(made, r) ==
            [r EXCEPT !.st = Record(@, [ev |-> "return", fn |-> this, args |-> args,
                                        context |-> made.context, depth |-> d,
                                        tables |-> r.st.tables, out |-> r.st.out,
                                        value |-> r.value, error |-> r.error,
                                        thrown |-> r.thrown])]
        dispatch(made, called) ==
            IF this.class = "DPLFunction"
            THEN returned(made, callFunction(this, args, made.context, called, d))
            ELSE returned(made, callBuiltIn(this, args, made.context, called))
        entered(made) ==
            IF made.thrown # NoThrow THEN Throw(st, made.thrown)
            ELSE dispatch(made,
                          Record(made.st, [ev |-> "call", fn |-> this, args |-> args,
                                           context |-> made.context, depth |-> d,
                                           tables |-> made.st.tables, out |-> made.st.out,
                                           inp |-> made.st.inp]))
    IN IF this.type # "FN"
       THEN Failure(st, RuntimeError(this.posStart, this.posEnd,
                                     [text |-> "is not callable", type |-> this.type],
                                     this.context))
       ELSE entered(generateContext(this, st))

\* Interpreter.visit: the switch on node.type; d is the nesting depth of the visit,
\* kept for the history only
Visit(node, context, st, d) ==
    LET exit(r) ==
            [r EXCEPT !.st = Record(@, [ev |-> "exit", node |-> node, context |-> context,
                                        depth |-> d, value |-> r.value, error |-> r.error,
                                        thrown |-> r.thrown, tables |-> r.st.tables])]
        switch(entered) ==
            CASE node.type = "ValueNode" -> visitValueNode(node, context, entered)
              [] node.type = "UnaryOpNode" -> visitUnaryOpNode(node, context, entered, d + 1)
              [] node.type = "BinaryOpNode" ->
                    visitBinaryOpNode(node, context, entered, d + 1)
              [] node.type = "VarAccessNode" -> visitVarAccessNode(node, context, entered)
              [] node.type = "VarAssignNode" ->
                    visitVarAssignNode(node, context, entered, d + 1)
              [] node.type = "IfNode" -> visitIfNode(node, context, entered, d + 1)
              [] node.type = "ForNode" -> visitForNode(node, context, entered, d + 1)
              [] node.type = "WhileNode" -> visitWhileNode(node, context, entered, d + 1)
              [] node.type = "FnDefNode" -> visitFnDefNode(node, context, entered)
              [] node.type = "CallNode" -> visitCallNode(node, context, entered, d + 1)
              [] OTHER -> Throw(entered, "Error: Unknown node type")
    IN exit(switch(Record(st, [ev |-> "enter", node |-> node, context |-> context,
                               depth |-> d, tables |-> st.tables])))

\* ------------------------------------------------------------------ Lexer
\* new Position({ i, line, column })
Position(i, line, column) == [i |-> i, line |-> line, col |-> column]

\* a Position.advance that takes a newline for any other character
advanceSameLine(pos, currentChar) == Position(pos.i + 1, pos.line, pos.col + 1)

\* Position.advance(currentChar)
advance(pos, currentChar) ==
    IF currentChar = "\n" THEN Position(pos.i + 1, pos.line + 1, 0)
    ELSE Position(pos.i + 1, pos.line, pos.col + 1)

\* the character classes of the regular expressions of tokenMap
Lower == {"a", "b", "c", "d", "e", "f", "g", "h", "i", "j", "k", "l", "m",
          "n", "o", "p", "q", "r", "s", "t", "u", "v", "w", "x", "y", "z"}
Upper == {"A", "B", "C", "D", "E", "F", "G", "H", "I", "J", "K", "L", "M",
          "N", "O", "P", "Q", "R", "S", "T", "U", "V", "W", "X", "Y", "Z"}
\* \s
IsSpace(c) == c \in {" ", "\t", "\n", "\r", "\f"}
\* \w
IsWord(c) == c \in Lower \cup Upper \cup {"_"} \/ IsDigit(c)
\* . (any character but a line terminator)
IsDot(c) == c \notin {"\n", "\r"}
\* [0-9a-fA-F]
IsHex(c) == IsDigit(c) \/ c \in {"a", "b", "c", "d", "e", "f", "A", "B", "C", "D", "E", "F"}

\* s starts with w
StartsWith(s, w) == Len(s) >= Len(w) /\ SubSeq(s, 1, Len(w)) = w

\* \b between s[k] and s[k + 1], for k >= 1
WordBoundary(s, k) == IsWord(s[k]) # (k < Len(s) /\ IsWord(s[k + 1]))

RECURSIVE Run(_, _, _)
\* the number of characters of a class that a greedy star takes from s[k] on
Run(s, k, class) ==
    IF k <= Len(s) /\ (CASE class = "\\d" -> IsDigit(s[k])
                          [] class = "\\s" -> IsSpace(s[k])
                          [] class = "\\w" -> IsWord(s[k])
                          [] class = "." -> IsDot(s[k]))
    THEN 1 + Run(s, k + 1, class)
    ELSE 0

RECURSIVE CountDown(_, _)
\* <<from + n, ..., from + 1, from>>: the lengths a greedy quantifier gives back in turn
CountDown(from, n) == IF n < 0 THEN <<>> ELSE <<from + n>> \o CountDown(from, n - 1)

RECURSIVE NumberEnds(_, _)
\* /^\d+\.?\d*/ with \d+ taking a digits and fewer: the match lengths in the order
\* the backtracking matcher tries them
NumberEnds(s, a) ==
    IF a < 1 THEN <<>>
    ELSE (IF a < Len(s) /\ s[a + 1] = "." THEN CountDown(a + 1, Run(s, a + 2, "\\d"))
          ELSE <<>>)
         \o CountDown(a, Run(s, a + 1, "\\d"))
         \o NumberEnds(s, a - 1)

RECURSIVE FirstBoundary(_, _)
\* the first length of ends that a trailing \b accepts, or 0
FirstBoundary(s, ends) ==
    IF ends = <<>> THEN 0
    ELSE IF WordBoundary(s, Head(ends)) THEN Head(ends)
    ELSE FirstBoundary(s, Tail(ends))

RECURSIVE FirstWord(_, _)
\* /^(?:w1|w2|...)\b/: the alternatives in order
FirstWord(s, words) ==
    IF words = <<>> THEN 0
    ELSE IF StartsWith(s, Head(words)) /\ WordBoundary(s, Len(Head(words)))
         THEN Len(Head(words))
    ELSE FirstWord(s, Tail(words))

RECURSIVE StringEnd(_, _)
\* /^"((?:\\.|.)*?)"/ from s[k] on, s[1] being the opening quote: the lazy star
\* tries the closing quote first, then \\. and then . ; 0 when nothing matches
StringEnd(s, k) ==
    LET single == IF IsDot(s[k]) THEN StringEnd(s, k + 1) ELSE 0
        escaped(end) == IF end # 0 THEN end ELSE single
    IN IF k > Len(s) THEN 0
       ELSE IF s[k] = "\"" THEN k
       ELSE IF s[k] = "\\" /\ k < Len(s) /\ IsDot(s[k + 1]) THEN escaped(StringEnd(s, k + 2))
       ELSE single

RECURSIVE LastCommentEnd(_, _)
\* /^\/\*[\s\S]*\*\//: the greedy star runs to the last "*/" at or after s[k]
LastCommentEnd(s, k) ==
    IF k < 4 THEN 0
    ELSE IF s[k - 1] = "*" /\ s[k] = "/" THEN k
    ELSE LastCommentEnd(s, k - 1)

Keywords ==
    << <<"s", "e", "t">>, <<"i", "f">>, <<"d", "o">>, <<"e", "l", "s", "e">>,
       <<"f", "o", "r">>, <<"t", "o">>, <<"s", "t", "e", "p">>,
       <<"w", "h", "i", "l", "e">>, <<"f", "n">> >>

\* const escapes; the backspace is written "\\b"
escapes ==
    [c \in {"b", "f", "n", "r", "t"} |->
        CASE c = "b" -> "\\b" [] c = "f" -> "\f" [] c = "n" -> "\n"
          [] c = "r" -> "\r" [] c = "t" -> "\t"]

\* String.fromCharCode(parseInt(hex, 16)): the code unit, written "\\u" and its digits
FromCharCode(hex) == "\\u" \o hex[1] \o hex[2] \o hex[3] \o hex[4]

RECURSIVE ReplaceFirstEscape(_, _)
\* match[1].replace(/\\(u[0-9a-fA-F]{4}|[^u])/, ...), no g flag: the first match only
ReplaceFirstEscape(s, k) ==
    IF k > Len(s) THEN s
    ELSE IF s[k] = "\\" /\ k + 5 <= Len(s) /\ s[k + 1] = "u"
            /\ \A h \in 2..5 : IsHex(s[k + h])
         THEN SubSeq(s, 1, k - 1) \o <<FromCharCode(SubSeq(s, k + 2, k + 5))>>
              \o SubSeq(s, k + 6, Len(s))
    ELSE IF s[k] = "\\" /\ k < Len(s) /\ s[k + 1] # "u"
         THEN SubSeq(s, 1, k - 1)
              \o <<IF s[k + 1] \in DOMAIN escapes THEN escapes[s[k + 1]] ELSE s[k + 1]>>
              \o SubSeq(s, k + 2, Len(s))
    ELSE ReplaceFirstEscape(s, k + 1)

\* const tokenMap: regex is the pattern, type "null" the type: null of a skipped match
tokenMap ==
    << [regex |-> "\\s+", type |-> "null"],
       [regex |-> "//.*", type |-> "null"],
       [regex |-> "/*[\\s\\S]**/", type |-> "null"],
       [regex |-> "words", words |-> Keywords, type |-> "KEYWORD"],
       [regex |-> "literal", text |-> <<":">>, type |-> "ASSIGN"],
       [regex |-> "literal", text |-> <<"(">>, type |-> "LPAREN"],
       [regex |-> "literal", text |-> <<")">>, type |-> "RPAREN"],
       [regex |-> "literal", text |-> <<",">>, type |-> "COMMA"],
       [regex |-> "literal", text |-> <<"-", ">">>, type |-> "ARROW"],
       [regex |-> "words", words |-> << <<"n", "o", "n", "e">> >>, type |-> "NONE"],
       [regex |-> "\\d+\\.?\\d*\\b", type |-> "NUMBER"],
       [regex |-> "words",
        words |-> << <<"t", "r", "u", "e">>, <<"f", "a", "l", "s", "e">> >>,
        type |-> "BOOL"],
       [regex |-> "string", type |-> "STRING"],
       [regex |-> "literal", text |-> <<"+">>, type |-> "PLUS"],
       [regex |-> "literal", text |-> <<"-">>, type |-> "MINUS"],
       [regex |-> "literal", text |-> <<"*">>, type |-> "MUL"],
       [regex |-> "literal", text |-> <<"/">>, type |-> "DIV"],
       [regex |-> "literal", text |-> <<"%">>, type |-> "MOD"],
       [regex |-> "literal", text |-> <<"^">>, type |-> "POW"],
       [regex |-> "words", words |-> << <<"a", "n", "d">> >>, type |-> "AND"],
       [regex |-> "words", words |-> << <<"o", "r">> >>, type |-> "OR"],
       [regex |-> "words", words |-> << <<"x", "o", "r">> >>, type |-> "XOR"],
       [regex |-> "words", words |-> << <<"n", "o", "t">> >>, type |-> "NOT"],
       [regex |-> "literal", text |-> <<"<", "=">>, type |-> "LE"],
       [regex |-> "literal", text |-> <<"<">>, type |-> "LT"],
       [regex |-> "literal", text |-> <<">", "=">>, type |-> "GE"],
       [regex |-> "literal", text |-> <<">">>, type |-> "GT"],
       [regex |-> "literal", text |-> <<"=">>, type |-> "EQ"],
       [regex |-> "literal", text |-> <<"!", "=">>, type |-> "NEQ"],
       [regex |-> "[a-zA-Z_][a-zA-Z0-9_]*", type |-> "IDENTIFIER"] >>

\* sliced.match(regex): the length of match[0], 0 for no match
MatchLength(matcher, s) ==
    CASE matcher.regex = "\\s+" -> Run(s, 1, "\\s")
      [] matcher.regex = "//.*" ->
            IF StartsWith(s, <<"/", "/">>) THEN 2 + Run(s, 3, ".") ELSE 0
      [] matcher.regex = "/*[\\s\\S]**/" ->
            IF StartsWith(s, <<"/", "*">>) THEN LastCommentEnd(s, Len(s)) ELSE 0
      [] matcher.regex = "words" -> FirstWord(s, matcher.words)
      [] matcher.regex = "literal" ->
            IF StartsWith(s, matcher.text) THEN Len(matcher.text) ELSE 0
      [] matcher.regex = "\\d+\\.?\\d*\\b" -> FirstBoundary(s, NumberEnds(s, Run(s, 1, "\\d")))
      [] matcher.regex = "string" -> IF s[1] = "\"" THEN StringEnd(s, 2) ELSE 0
      [] matcher.regex = "[a-zA-Z_][a-zA-Z0-9_]*" ->
            IF s[1] \in Lower \cup Upper \cup {"_"} THEN Run(s, 1, "\\w") ELSE 0

\* map ? map(match) : match[0]
MatchValue(matcher, s, n) ==
    IF matcher.regex = "string" THEN ReplaceFirstEscape(SubSeq(s, 2, n - 1), 1)
    ELSE SubSeq(s, 1, n)

RECURSIVE FirstMatch(_, _)
\* for (const { regex, type, map } of tokenMap): the first matcher from the k-th on
\* that matches, 0 when none does
FirstMatch(s, k) ==
    IF k > Len(tokenMap) THEN 0
    ELSE IF MatchLength(tokenMap[k], s) > 0 THEN k
    ELSE FirstMatch(s, k + 1)

RECURSIVE LexerAdvance(_, _, _)
\* Lexer.advance(count)
LexerAdvance(input, pos, count) ==
    IF count <= 0 THEN pos
    ELSE LexerAdvance(input,
                      advance(pos, IF pos.i + 1 \in DOMAIN input THEN input[pos.i + 1]
                                   ELSE ""),
                      count - 1)

\* new Token({ type: "EOF", value: "EOF", posStart }): posEnd is posStart advanced
EOFToken(pos) == Token("EOF", <<"E", "O", "F">>, pos, advance(pos, ""))

RECURSIVE LexLoop(_, _, _)
\* the while (this.currentChar) loop of Lexer.getTokens
LexLoop(input, pos, tokens) ==
    LET sliced == SubSeq(input, pos.i + 1, Len(input))
        matched(matcher, n) ==
            IF matcher.type = "null" THEN LexLoop(input, LexerAdvance(input, pos, n), tokens)
            ELSE LexLoop(input, LexerAdvance(input, pos, n),
                         Append(tokens, Token(matcher.type, MatchValue(matcher, sliced, n),
                                              pos, LexerAdvance(input, pos, n))))
        try(k) ==
            IF k = 0
            THEN [tokens |-> <<>>,
                  error |-> IllegalCharacterError(pos, LexerAdvance(input, pos, 1),
                                                  <<"'", input[pos.i + 1], "'">>)]
            ELSE matched(tokenMap[k], MatchLength(tokenMap[k], sliced))
    IN IF pos.i + 1 \notin DOMAIN input
       THEN [tokens |-> Append(tokens, EOFToken(pos)), error |-> NoError]
       ELSE try(FirstMatch(sliced, 1))

\* new Lexer(file, input).getTokens(): the constructor leaves pos at offset 0
getTokens(input) == LexLoop(input, LexerAdvance(input, Position(-1, 0, -1), 1), <<>>)

\* ------------------------------------------------------------------ Parser
(***************************************************************************)
(* The parser reads the token array ts with the cursor i (0-based, as       *)
(* Parser.i).  Every method returns [i, node, error, thrown]: the cursor it *)
(* leaves, and the ParseResult (node, error) or the host exception of a     *)
(* read of this.current() past the end of the array.                        *)
(***************************************************************************)
\* ParseResult.success
ParseSuccess(i, node) == [i |-> i, node |-> node, error |-> NoError, thrown |-> NoThrow]

\* ParseResult.failure
ParseFailure(i, error) == [i |-> i, node |-> Undefined, error |-> error, thrown |-> NoThrow]

ParseThrow(i) ==
    [i |-> i, node |-> Undefined, error |-> NoError,
     thrown |-> "TypeError: Cannot read properties of undefined"]

\* this.tokens[i] is an element of the array
InRange(ts, i) == i + 1 \in DOMAIN ts

\* Parser.current
current(ts, i) == ts[i + 1]

\* Parser.peek
peek(ts, i) == ts[i + 2]

\* this.current().type, "undefined" where the read throws
TypeAt(ts, i) == IF InRange(ts, i) THEN current(ts, i).type ELSE "undefined"

\* Token.matches
matches(token, type, value) == token.type = type /\ token.value = value

\* res.failure(new SyntaxError(this.current().posStart, this.current().posEnd, message))
Unexpected(ts, i, message) ==
    IF InRange(ts, i)
    THEN ParseFailure(i, SyntaxError(current(ts, i).posStart, current(ts, i).posEnd, message))
    ELSE ParseThrow(i)

\* `Unexpected ${token.type}: '${token.value}'`
UnexpectedToken(ts, i) ==
    IF InRange(ts, i)
    THEN ParseFailure(i, SyntaxError(current(ts, i).posStart, current(ts, i).posEnd,
                                     [text |-> "Unexpected", type |-> current(ts, i).type,
                                      value |-> current(ts, i).value]))
    ELSE ParseThrow(i)

\* res.register(sub); if (res.error) return res
Registered(r) == IF Thrown(r) THEN r ELSE ParseFailure(r.i, r.error)

RECURSIVE statements(_, _), StatementsLoop(_, _, _), expr(_, _), compExpr(_, _)
RECURSIVE arithExpr(_, _), term(_, _), factor(_, _), power(_, _), fnCall(_, _)
RECURSIVE ArgsLoop(_, _, _, _), atom(_, _), ifExpr(_, _), forExpr(_, _)
RECURSIVE whileExpr(_, _), fnExpr(_, _), ParamsLoop(_, _, _, _)
RECURSIVE binOp(_, _, _, _, _), BinOpLoop(_, _, _, _, _), Block(_, _, _)

\* a StatementsLoop that calls next() after every statement, whatever follows it
StatementsLoopAlwaysNext(ts, i, stmts) ==
    LET done(j, all) ==
            ParseSuccess(j, StatementsNode(IF all # <<>> THEN all[1].posStart
                                           ELSE current(ts, j).posStart,
                                           IF all # <<>> THEN all[Len(all)].posEnd
                                           ELSE current(ts, j).posEnd,
                                           all))
        afterExpr(r) ==
            IF Thrown(r) \/ HasError(r) THEN r
            ELSE StatementsLoop(ts, r.i + 1, Append(stmts, r.node))
    IN IF ~InRange(ts, i) THEN ParseThrow(i)
       ELSE IF current(ts, i).type \in {"EOF", "RBRACE"} THEN done(i, stmts)
       ELSE afterExpr(expr(ts, i))

\* the while (true) loop of Parser.statements
StatementsLoop(ts, i, stmts) ==
    LET done(j, all) ==
            ParseSuccess(j, StatementsNode(IF all # <<>> THEN all[1].posStart
                                           ELSE current(ts, j).posStart,
                                           IF all # <<>> THEN all[Len(all)].posEnd
                                           ELSE current(ts, j).posEnd,
                                           all))
        afterExpr(r) ==
            IF Thrown(r) \/ HasError(r) THEN r
            ELSE IF ~InRange(ts, r.i) THEN ParseThrow(r.i)
            ELSE IF current(ts, r.i).type = "SEMICOLON"
                 THEN StatementsLoop(ts, r.i + 1, Append(stmts, r.node))
            ELSE done(r.i, Append(stmts, r.node))
    IN IF ~InRange(ts, i) THEN ParseThrow(i)
       ELSE IF current(ts, i).type \in {"EOF", "RBRACE"} THEN done(i, stmts)
       ELSE afterExpr(expr(ts, i))

statements(ts, i) == StatementsLoop(ts, i, <<>>)

expr(ts, i) ==
    LET assigned(identifier, r) ==
            IF Thrown(r) \/ HasError(r) THEN Registered(r)
            ELSE ParseSuccess(r.i, VarAssignNode(identifier, r.node))
    IN IF TypeAt(ts, i) = "IDENTIFIER" /\ ~InRange(ts, i + 1) THEN ParseThrow(i)
       ELSE IF TypeAt(ts, i) = "IDENTIFIER" /\ peek(ts, i).type = "ASSIGN"
            THEN IF TypeAt(ts, i + 1) # "ASSIGN" THEN Unexpected(ts, i + 1, "Expected ':='")
                 ELSE assigned(current(ts, i), expr(ts, i + 2))
       ELSE binOp("compExpr", {"AND", "OR", "XOR"}, "compExpr", ts, i)

compExpr(ts, i) ==
    LET negated(op, r) ==
            IF Thrown(r) \/ HasError(r) THEN Registered(r)
            ELSE ParseSuccess(r.i, UnaryOpNode(op, r.node))
    IN IF TypeAt(ts, i) = "NOT" THEN negated(current(ts, i), compExpr(ts, i + 1))
       ELSE binOp("arithExpr", {"EQ", "NEQ", "LT", "LE", "GT", "GE"}, "arithExpr", ts, i)

arithExpr(ts, i) == binOp("term", {"PLUS", "MINUS"}, "term", ts, i)

term(ts, i) == binOp("factor", {"MUL", "DIV", "MOD"}, "factor", ts, i)

factor(ts, i) ==
    LET signed(token, r) ==
            IF Thrown(r) \/ HasError(r) THEN Registered(r)
            ELSE ParseSuccess(r.i, UnaryOpNode(token, r.node))
    IN IF ~InRange(ts, i) THEN ParseThrow(i)
       ELSE IF current(ts, i).type \in {"PLUS", "MINUS"}
            THEN signed(current(ts, i), power(ts, i + 1))
       ELSE power(ts, i)

\* a power whose right operand is a fnCall, as its left one
powerLeft(ts, i) == binOp("fnCall", {"POW"}, "fnCall", ts, i)

power(ts, i) == binOp("fnCall", {"POW"}, "factor", ts, i)

\* the while (this.current().type !== "RPAREN") loop of Parser.fnCall
ArgsLoop(ts, i, callee, args) ==
    LET afterArg(r) ==
            IF Thrown(r) \/ HasError(r) THEN Registered(r)
            ELSE IF TypeAt(ts, r.i) = "COMMA"
                 THEN ArgsLoop(ts, r.i + 1, callee, Append(args, r.node))
            ELSE IF TypeAt(ts, r.i) # "RPAREN" THEN Unexpected(ts, r.i, "Expected ',' or ')'")
            ELSE ArgsLoop(ts, r.i, callee, Append(args, r.node))
    IN IF ~InRange(ts, i) THEN ParseThrow(i)
       ELSE IF current(ts, i).type = "RPAREN" THEN ParseSuccess(i + 1, CallNode(callee, args))
       ELSE afterArg(expr(ts, i))

fnCall(ts, i) ==
    LET afterAtom(r) ==
            IF Thrown(r) \/ HasError(r) THEN Registered(r)
            ELSE IF ~InRange(ts, r.i) THEN ParseThrow(r.i)
            ELSE IF current(ts, r.i).type # "LPAREN" THEN ParseSuccess(r.i, r.node)
            ELSE ArgsLoop(ts, r.i + 1, r.node, <<>>)
    IN afterAtom(atom(ts, i))

atom(ts, i) ==
    LET closed(r) ==
            IF Thrown(r) \/ HasError(r) THEN Registered(r)
            ELSE IF TypeAt(ts, r.i) = "RPAREN" THEN ParseSuccess(r.i + 1, r.node)
            ELSE Unexpected(ts, r.i, "Expected ')'")
        registered(r) ==
            IF Thrown(r) \/ HasError(r) THEN Registered(r) ELSE ParseSuccess(r.i, r.node)
        keyword(token) ==
            IF matches(token, "KEYWORD", <<"i", "f">>) THEN registered(ifExpr(ts, i))
            ELSE IF matches(token, "KEYWORD", <<"f", "o", "r">>)
                 THEN registered(forExpr(ts, i))
            ELSE IF matches(token, "KEYWORD", <<"w", "h", "i", "l", "e">>)
                 THEN registered(whileExpr(ts, i))
            ELSE IF matches(token, "KEYWORD", <<"f", "n">>) THEN registered(fnExpr(ts, i))
            ELSE UnexpectedToken(ts, i)
    IN IF ~InRange(ts, i) THEN ParseThrow(i)
       ELSE IF current(ts, i).type \in {"NONE", "NUMBER", "BOOL", "STRING"}
            THEN ParseSuccess(i + 1, ValueNode(current(ts, i)))
       ELSE IF current(ts, i).type = "IDENTIFIER"
            THEN ParseSuccess(i + 1, VarAccessNode(current(ts, i)))
       ELSE IF current(ts, i).type = "LPAREN" THEN closed(expr(ts, i + 1))
       ELSE keyword(current(ts, i))

\* LBRACE statements RBRACE from the cursor i on: [i, node, error, thrown] with the
\* cursor on the RBRACE; closed says whether a next() follows the RBRACE
Block(ts, i, closed) ==
    LET afterBody(r) ==
            IF Thrown(r) \/ HasError(r) THEN Registered(r)
            ELSE IF TypeAt(ts, r.i) # "RBRACE" THEN Unexpected(ts, r.i, "Expected '}'")
            ELSE ParseSuccess(IF closed THEN r.i + 1 ELSE r.i, r.node)
    IN IF TypeAt(ts, i) # "LBRACE" THEN Unexpected(ts, i, "Expected '{'")
       ELSE afterBody(statements(ts, i + 1))

ifExpr(ts, i) ==
    LET afterElse(condition, thenBranch, r) ==
            IF Thrown(r) \/ HasError(r) THEN r
            ELSE ParseSuccess(r.i, IfNode(condition, thenBranch, r.node))
        \* no next() follows the RBRACE of the else block
        afterThen(condition, r) ==
            IF Thrown(r) \/ HasError(r) THEN r
            ELSE IF ~InRange(ts, r.i) THEN ParseThrow(r.i)
            ELSE IF ~matches(current(ts, r.i), "KEYWORD", <<"e", "l", "s", "e">>)
                 THEN ParseSuccess(r.i, IfNode(condition, r.node, NullNode))
            ELSE afterElse(condition, r.node, Block(ts, r.i + 1, FALSE))
        afterCondition(r) ==
            IF Thrown(r) \/ HasError(r) THEN Registered(r)
            ELSE afterThen(r.node, Block(ts, r.i, TRUE))
    IN IF ~InRange(ts, i) THEN ParseThrow(i)
       ELSE IF ~matches(current(ts, i), "KEYWORD", <<"i", "f">>)
            THEN Unexpected(ts, i, "Expected 'if'")
       ELSE afterCondition(expr(ts, i + 1))

forExpr(ts, i) ==
    LET afterBody(varName, startValue, endValue, stepValue, r) ==
            IF Thrown(r) \/ HasError(r) THEN r
            ELSE ParseSuccess(r.i, ForNode(varName, startValue, endValue, stepValue, r.node))
        afterStep(varName, startValue, endValue, r) ==
            IF Thrown(r) \/ HasError(r) THEN Registered(r)
            ELSE afterBody(varName, startValue, endValue, r.node, Block(ts, r.i, TRUE))
        afterEnd(varName, startValue, r) ==
            IF Thrown(r) \/ HasError(r) THEN Registered(r)
            ELSE IF ~InRange(ts, r.i) THEN ParseThrow(r.i)
            ELSE IF matches(current(ts, r.i), "KEYWORD", <<"s", "t", "e", "p">>)
                 THEN afterStep(varName, startValue, r.node, expr(ts, r.i + 1))
            ELSE afterBody(varName, startValue, r.node, NullNode, Block(ts, r.i, TRUE))
        afterStart(varName, r) ==
            IF Thrown(r) \/ HasError(r) THEN Registered(r)
            ELSE IF ~InRange(ts, r.i) THEN ParseThrow(r.i)
            ELSE IF ~matches(current(ts, r.i), "KEYWORD", <<"t", "o">>)
                 THEN Unexpected(ts, r.i, "Expected 'to'")
            ELSE afterEnd(varName, r.node, expr(ts, r.i + 1))
    IN IF ~InRange(ts, i) THEN ParseThrow(i)
       ELSE IF ~matches(current(ts, i), "KEYWORD", <<"f", "o", "r">>)
            THEN Unexpected(ts, i, "Expected 'for'")
       ELSE IF TypeAt(ts, i + 1) # "IDENTIFIER"
            THEN Unexpected(ts, i + 1, "Expected IDENTIFIER")
       ELSE IF TypeAt(ts, i + 2) # "ASSIGN" THEN Unexpected(ts, i + 2, "Expected ':'")
       ELSE afterStart(current(ts, i + 1), expr(ts, i + 3))

whileExpr(ts, i) ==
    LET afterBody(condition, r) ==
            IF Thrown(r) \/ HasError(r) THEN r
            ELSE ParseSuccess(r.i, WhileNode(condition, r.node))
        \* no next() follows the RBRACE of the body
        afterCondition(r) ==
            IF Thrown(r) \/ HasError(r) THEN Registered(r)
            ELSE afterBody(r.node, Block(ts, r.i, FALSE))
    IN IF ~InRange(ts, i) THEN ParseThrow(i)
       ELSE IF ~matches(current(ts, i), "KEYWORD", <<"w", "h", "i", "l", "e">>)
            THEN Unexpected(ts, i, "Expected 'while'")
       ELSE afterCondition(expr(ts, i + 1))

\* the while (this.current().type !== "RPAREN") loop of Parser.fnExpr and what follows
ParamsLoop(ts, i, name, parameters) ==
    LET afterBody(r) ==
            IF Thrown(r) \/ HasError(r) THEN r
            ELSE ParseSuccess(r.i, FnDefNode(name, parameters, r.node))
    IN IF ~InRange(ts, i) THEN ParseThrow(i)
       ELSE IF current(ts, i).type = "RPAREN" THEN afterBody(Block(ts, i + 1, TRUE))
       ELSE IF current(ts, i).type # "IDENTIFIER" THEN Unexpected(ts, i, "Expected IDENTIFIER")
       ELSE IF TypeAt(ts, i + 1) = "COMMA"
            THEN ParamsLoop(ts, i + 2, name, Append(parameters, current(ts, i)))
       ELSE IF TypeAt(ts, i + 1) # "RPAREN"
            THEN Unexpected(ts, i + 1, "Expected ',' or ')'")
       ELSE ParamsLoop(ts, i + 1, name, Append(parameters, current(ts, i)))

fnExpr(ts, i) ==
    LET named(name, j) ==
            IF TypeAt(ts, j) # "LPAREN"
            THEN Unexpected(ts, j, IF name # NullToken THEN "Expected '('"
                                   ELSE "Expected '(' or IDENTIFIER")
            ELSE ParamsLoop(ts, j + 1, name, <<>>)
    IN IF ~InRange(ts, i) THEN ParseThrow(i)
       ELSE IF ~matches(current(ts, i), "KEYWORD", <<"f", "n">>)
            THEN Unexpected(ts, i, "Expected 'fn'")
       ELSE IF TypeAt(ts, i + 1) = "IDENTIFIER" THEN named(current(ts, i + 1), i + 2)
       ELSE named(NullToken, i + 1)

\* nodeA() / nodeB() of Parser.binOp: the bound method the name stands for
Production(name, ts, i) ==
    CASE name = "compExpr" -> compExpr(ts, i)
      [] name = "arithExpr" -> arithExpr(ts, i)
      [] name = "term" -> term(ts, i)
      [] name = "factor" -> factor(ts, i)
      [] name = "fnCall" -> fnCall(ts, i)

\* the while (ops.includes(this.current()?.type)) loop of Parser.binOp
BinOpLoop(ops, nodeB, ts, i, left) ==
    LET afterRight(op, r) ==
            IF Thrown(r) \/ HasError(r) THEN Registered(r)
            ELSE BinOpLoop(ops, nodeB, ts, r.i, BinaryOpNode(op, left, r.node))
    IN IF TypeAt(ts, i) \in ops THEN afterRight(current(ts, i), Production(nodeB, ts, i + 1))
       ELSE ParseSuccess(i, left)

binOp(nodeA, ops, nodeB, ts, i) ==
    LET afterLeft(r) ==
            IF Thrown(r) \/ HasError(r) THEN Registered(r)
            ELSE BinOpLoop(ops, nodeB, ts, r.i, r.node)
    IN afterLeft(Production(nodeA, ts, i))

\* Parser.parse without the test of the cursor after the statements rule
parseNoEndCheck(ts) == statements(ts, 0)

\* Parser.parse
parse(ts) ==
    LET finish(res) ==
            IF Thrown(res) \/ HasError(res) THEN res
            ELSE IF ~InRange(ts, res.i) THEN ParseThrow(res.i)
            ELSE IF current(ts, res.i).type \notin {"EOF", "SEMICOLON"}
                 THEN [res EXCEPT !.error = UnexpectedToken(ts, res.i).error]
            ELSE res
    IN finish(statements(ts, 0))

\* ----------------------------------------------------------- the programs
\* the ASTs given to Interpreter.visit.  The leaves are stamped as the lexer stamps
\* a lexeme that starts at offset p (every program is one line long).
Ast ==
    LET At(p) == [i |-> p, line |-> 0, col |-> p]
        TOK(type, text, p, n) == Token(type, text, At(p), At(p + n))
        NUM(text, p) == ValueNode(TOK("NUMBER", text, p, Len(text)))
        BOOL(text, p) == ValueNode(TOK("BOOL", text, p, Len(text)))
        STR(text, p) == ValueNode(TOK("STRING", text, p, Len(text) + 2))
        NONE(p) == ValueNode(TOK("NONE", <<"n", "o", "n", "e">>, p, 4))
        ID(name, p) == TOK("IDENTIFIER", name, p, Len(name))
        VAR(name, p) == VarAccessNode(ID(name, p))
        OP(type, p) == TOK(type, <<type>>, p, 1)
        True == <<"t", "r", "u", "e">>
        False == <<"f", "a", "l", "s", "e">>
        MakeClosure ==
            CallNode(FnDefNode(ID(<<"m", "k">>, 4), <<ID(<<"y">>, 7)>>,
                               FnDefNode(NullToken, <<>>, VAR(<<"y">>, 20))),
                     <<NUM(<<"7">>, 27)>>)
    IN [
        \* 1 + 2
        Add |-> BinaryOpNode(OP("PLUS", 2), NUM(<<"1">>, 0), NUM(<<"2">>, 4)),
        \* x := 1
        AssignX |-> VarAssignNode(ID(<<"x">>, 0), NUM(<<"1">>, 5)),
        \* x
        ReadX |-> VAR(<<"x">>, 0),
        \* (x := 2) + (y := 3)
        AssignBoth |->
            BinaryOpNode(OP("PLUS", 9), VarAssignNode(ID(<<"x">>, 1), NUM(<<"2">>, 6)),
                         VarAssignNode(ID(<<"y">>, 12), NUM(<<"3">>, 17))),
        \* (1 / 0) + (y := 4)
        LeftFails |->
            BinaryOpNode(OP("PLUS", 8),
                         BinaryOpNode(OP("DIV", 3), NUM(<<"1">>, 1), NUM(<<"0">>, 5)),
                         VarAssignNode(ID(<<"y">>, 11), NUM(<<"4">>, 16))),
        \* false and (y := true)
        AndFalse |->
            BinaryOpNode(TOK("AND", <<"a", "n", "d">>, 6, 3), BOOL(False, 0),
                         VarAssignNode(ID(<<"y">>, 11), BOOL(True, 16))),
        \* true or (y := false)
        OrTrue |->
            BinaryOpNode(TOK("OR", <<"o", "r">>, 5, 2), BOOL(True, 0),
                         VarAssignNode(ID(<<"y">>, 9), BOOL(False, 14))),
        \* true xor (x := 1)
        XorMixed |->
            BinaryOpNode(TOK("XOR", <<"x", "o", "r">>, 5, 3), BOOL(True, 0),
                         VarAssignNode(ID(<<"x">>, 10), NUM(<<"1">>, 15))),
        \* z + (y := 5)
        UndefinedLeft |->
            BinaryOpNode(OP("PLUS", 2), VAR(<<"z">>, 0),
                         VarAssignNode(ID(<<"y">>, 5), NUM(<<"5">>, 10))),
        \* -x
        NegX |-> UnaryOpNode(OP("MINUS", 0), VAR(<<"x">>, 1)),
        \* fn h() { x }, the body being the expression itself
        DefH |-> FnDefNode(ID(<<"h">>, 3), <<>>, VAR(<<"x">>, 9)),
        \* (fn g() { (x := 5) + h() })()
        CallerScope |->
            CallNode(FnDefNode(ID(<<"g">>, 4), <<>>,
                               BinaryOpNode(OP("PLUS", 19),
                                            VarAssignNode(ID(<<"x">>, 11), NUM(<<"5">>, 16)),
                                            CallNode(VAR(<<"h">>, 21), <<>>))),
                     <<>>),
        \* (fn f(x) { (x := x + 1) + (t := 0) })(5)
        Shadow |->
            CallNode(FnDefNode(ID(<<"f">>, 4), <<ID(<<"x">>, 6)>>,
                               BinaryOpNode(OP("PLUS", 24),
                                            VarAssignNode(ID(<<"x">>, 12),
                                                          BinaryOpNode(OP("PLUS", 19),
                                                                       VAR(<<"x">>, 17),
                                                                       NUM(<<"1">>, 21))),
                                            VarAssignNode(ID(<<"t">>, 27), NUM(<<"0">>, 32)))),
                     <<NUM(<<"5">>, 38)>>),
        \* (fn mk(y) { fn () { y } })(7)
        MakeClosure |-> MakeClosure,
        \* ((fn mk(y) { fn () { y } })(7))()
        CallClosure |-> CallNode(MakeClosure, <<>>),
        \* (fn f(a) { a })()
        TooFew |->
            CallNode(FnDefNode(ID(<<"f">>, 4), <<ID(<<"a">>, 6)>>, VAR(<<"a">>, 11)), <<>>),
        \* (fn (a) { x := a })(1, 2)
        TooMany |->
            CallNode(FnDefNode(NullToken, <<ID(<<"a">>, 5)>>,
                               VarAssignNode(ID(<<"x">>, 10), VAR(<<"a">>, 15))),
                     <<NUM(<<"1">>, 20), NUM(<<"2">>, 23)>>),
        \* print(1)
        CallPrint |-> CallNode(VAR(PRINT, 0), <<NUM(<<"1">>, 6)>>),
        \* print()
        PrintNoArg |-> CallNode(VAR(PRINT, 0), <<>>),
        \* print(1, 2)
        PrintTwo |-> CallNode(VAR(PRINT, 0), <<NUM(<<"1">>, 6), NUM(<<"2">>, 9)>>),
        \* value := 7
        AssignValue |-> VarAssignNode(ID(VALUE, 0), NUM(<<"7">>, 9)),
        \* prompt("q")
        Prompt |-> CallNode(VAR(PROMPT, 0), <<STR(<<"q">>, 7)>>),
        \* 5()
        NotCallable |-> CallNode(NUM(<<"5">>, 0), <<>>),
        \* if x = 1 { y := 1 } else { y := 2 }
        If |->
            IfNode(BinaryOpNode(OP("EQ", 5), VAR(<<"x">>, 3), NUM(<<"1">>, 7)),
                   VarAssignNode(ID(<<"y">>, 11), NUM(<<"1">>, 16)),
                   VarAssignNode(ID(<<"y">>, 27), NUM(<<"2">>, 32))),
        \* for i := 0 to 2 { x := i }
        For |->
            ForNode(ID(<<"i">>, 4), NUM(<<"0">>, 9), NUM(<<"2">>, 14), NullNode,
                    VarAssignNode(ID(<<"x">>, 18), VAR(<<"i">>, 23))),
        \* for i := 0 to 2 step 1 / 0 { x := i }
        ForStepFails |->
            ForNode(ID(<<"i">>, 4), NUM(<<"0">>, 9), NUM(<<"2">>, 14),
                    BinaryOpNode(OP("DIV", 23), NUM(<<"1">>, 21), NUM(<<"0">>, 25)),
                    VarAssignNode(ID(<<"x">>, 29), VAR(<<"i">>, 34))),
        \* while false { x := 9 }
        While |->
            WhileNode(BOOL(False, 6), VarAssignNode(ID(<<"x">>, 14), NUM(<<"9">>, 19))),
        \* (false and (y := true)) = ((1 / 0) + (x := 4))
        BothSides |->
            BinaryOpNode(OP("EQ", 25),
                         BinaryOpNode(TOK("AND", <<"a", "n", "d">>, 7, 3), BOOL(False, 1),
                                      VarAssignNode(ID(<<"y">>, 12), BOOL(True, 17))),
                         BinaryOpNode(OP("PLUS", 36),
                                      BinaryOpNode(OP("DIV", 31), NUM(<<"1">>, 29), NUM(<<"0">>, 33)),
                                      VarAssignNode(ID(<<"x">>, 39), NUM(<<"4">>, 44)))),
        \* the Statements node Parser.statements builds for the empty token sequence
        NoStatements |-> StatementsNode(At(0), At(1), <<>>),
        \* the Statements node Parser.statements builds for the tokens of `1`
        Statements |-> StatementsNode(At(0), At(1), <<NUM(<<"1">>, 0)>>),
        \* print(print(1), 1 / 0, y := 4)
        ArgFails |->
            CallNode(VAR(PRINT, 0),
                     <<CallNode(VAR(PRINT, 6), <<NUM(<<"1">>, 12)>>),
                       BinaryOpNode(OP("DIV", 18), NUM(<<"1">>, 16), NUM(<<"0">>, 20)),
                       VarAssignNode(ID(<<"y">>, 23), NUM(<<"4">>, 28))>>),
        \* z(y := 5)
        CalleeFails |->
            CallNode(VAR(<<"z">>, 0), <<VarAssignNode(ID(<<"y">>, 2), NUM(<<"5">>, 7))>>),
        \* for i := 0 to 5 { x := i }
        ForUp |->
            ForNode(ID(<<"i">>, 4), NUM(<<"0">>, 9), NUM(<<"5">>, 14), NullNode,
                    VarAssignNode(ID(<<"x">>, 18), VAR(<<"i">>, 23))),
        \* for i := 5 to 0 step -1 { x := i }
        ForDown |->
            ForNode(ID(<<"i">>, 4), NUM(<<"5">>, 9), NUM(<<"0">>, 14),
                    UnaryOpNode(OP("MINUS", 21), NUM(<<"1">>, 22)),
                    VarAssignNode(ID(<<"x">>, 26), VAR(<<"i">>, 31))),
        \* for i := 0 to 5 step -1 { x := i }
        ForMismatch |->
            ForNode(ID(<<"i">>, 4), NUM(<<"0">>, 9), NUM(<<"5">>, 14),
                    UnaryOpNode(OP("MINUS", 21), NUM(<<"1">>, 22)),
                    VarAssignNode(ID(<<"x">>, 26), VAR(<<"i">>, 31))),
        \* for i := 1 to 6 step 2 { i := 9 }
        ForStride |->
            ForNode(ID(<<"i">>, 4), NUM(<<"1">>, 9), NUM(<<"6">>, 14), NUM(<<"2">>, 21),
                    VarAssignNode(ID(<<"i">>, 25), NUM(<<"9">>, 30))),
        \* for i := 3 to 3 { x := i }
        ForOnce |->
            ForNode(ID(<<"i">>, 4), NUM(<<"3">>, 9), NUM(<<"3">>, 14), NullNode,
                    VarAssignNode(ID(<<"x">>, 18), VAR(<<"i">>, 23))),
        \* (fn f() { for i := 0 to 1 { x := i } })()
        ForInCall |->
            CallNode(FnDefNode(ID(<<"f">>, 4), <<>>,
                               ForNode(ID(<<"i">>, 14), NUM(<<"0">>, 19), NUM(<<"1">>, 24),
                                       NullNode,
                                       VarAssignNode(ID(<<"x">>, 28), VAR(<<"i">>, 33)))),
                     <<>>),
        \* if 1 = 2 { y := 1 } else { y := 2 }
        IfElse |->
            IfNode(BinaryOpNode(OP("EQ", 5), NUM(<<"1">>, 3), NUM(<<"2">>, 7)),
                   VarAssignNode(ID(<<"y">>, 11), NUM(<<"1">>, 16)),
                   VarAssignNode(ID(<<"y">>, 27), NUM(<<"2">>, 32))),
        \* if 1 { y := 1 } else { y := 2 }
        IfNotBool |->
            IfNode(NUM(<<"1">>, 3), VarAssignNode(ID(<<"y">>, 7), NUM(<<"1">>, 12)),
                   VarAssignNode(ID(<<"y">>, 23), NUM(<<"2">>, 28))),
        \* if false { y := 1 }
        IfNoElse |->
            IfNode(BOOL(False, 3), VarAssignNode(ID(<<"y">>, 11), NUM(<<"1">>, 16)), NullNode),
        \* ((fn mk() { fn () { 1 / 0 } })())()
        ClosureFails |->
            CallNode(CallNode(FnDefNode(ID(<<"m", "k">>, 5), <<>>,
                                        FnDefNode(NullToken, <<>>,
                                                  BinaryOpNode(OP("DIV", 22), NUM(<<"1">>, 20),
                                                               NUM(<<"0">>, 24)))),
                              <<>>),
                     <<>>),
        \* (fn g() { (fn h() { 1 / 0 })() })()
        NestedFails |->
            CallNode(FnDefNode(ID(<<"g">>, 4), <<>>,
                               CallNode(FnDefNode(ID(<<"h">>, 14), <<>>,
                                                  BinaryOpNode(OP("DIV", 22), NUM(<<"1">>, 20),
                                                               NUM(<<"0">>, 24))),
                                        <<>>)),
                     <<>>),
        \* (fn f() { 1 })() / 0
        ReturnedOperand |->
            BinaryOpNode(OP("DIV", 17),
                         CallNode(FnDefNode(ID(<<"f">>, 4), <<>>, NUM(<<"1">>, 10)), <<>>),
                         NUM(<<"0">>, 19)),
        \* (x := 5) / 0
        BindThenFail |->
            BinaryOpNode(OP("DIV", 9), VarAssignNode(ID(<<"x">>, 1), NUM(<<"5">>, 6)),
                         NUM(<<"0">>, 11)),
        \* (pi := 1) + ((print := 2) + (prompt := 4))
        Rebind |->
            BinaryOpNode(OP("PLUS", 10), VarAssignNode(ID(PI, 1), NUM(<<"1">>, 7)),
                         BinaryOpNode(OP("PLUS", 26),
                                      VarAssignNode(ID(PRINT, 14), NUM(<<"2">>, 23)),
                                      VarAssignNode(ID(PROMPT, 29), NUM(<<"4">>, 39)))),
        \* pi
        ReadPi |-> VAR(PI, 0),
        \* for i := 1 to 3 { i := 0 }
        ForReset |->
            ForNode(ID(<<"i">>, 4), NUM(<<"1">>, 9), NUM(<<"3">>, 14), NullNode,
                    VarAssignNode(ID(<<"i">>, 18), NUM(<<"0">>, 23))),
        \* for i := 2 to 0 step 0 { x := i }
        ForStepZero |->
            ForNode(ID(<<"i">>, 4), NUM(<<"2">>, 9), NUM(<<"0">>, 14), NUM(<<"0">>, 21),
                    VarAssignNode(ID(<<"x">>, 25), VAR(<<"i">>, 30))),
        \* for i := 1 to 1 step 0 { x := i }
        ForStepZeroOnce |->
            ForNode(ID(<<"i">>, 4), NUM(<<"1">>, 9), NUM(<<"1">>, 14), NUM(<<"0">>, 21),
                    VarAssignNode(ID(<<"x">>, 25), VAR(<<"i">>, 30))),
        \* for i := 0 to 2 step 0 { x := i }
        ForStepZeroUp |->
            ForNode(ID(<<"i">>, 4), NUM(<<"0">>, 9), NUM(<<"2">>, 14), NUM(<<"0">>, 21),
                    VarAssignNode(ID(<<"x">>, 25), VAR(<<"i">>, 30)))
       ]

Programs == {Ast[n] : n \in DOMAIN Ast}

\* the source texts given to execute
Text ==
    [
        \* `1`
        One |->
            <<"1">>,
        \* `1 + 2 * 3`
        Sum |->
            <<"1", " ", "+", " ", "2", " ", "*", " ", "3">>,
        \* `x : 5`
        Assign |->
            <<"x", " ", ":", " ", "5">>,
        \* `fn add(a, b) { a + b }; add(2, 3)`
        Add |->
            <<"f", "n", " ", "a", "d", "d", "(", "a", ",", " ", "b", ")", " ", "{", " ", "a", " ",
              "+", " ", "b", " ", "}", ";", " ", "a", "d", "d", "(", "2", ",", " ", "3", ")">>,
        \* `print(1)`
        CallPrint |->
            <<"p", "r", "i", "n", "t", "(", "1", ")">>,
        \* `(1`
        Unclosed |->
            <<"(", "1">>,
        \* ``
        Empty |->
            <<>>,
        \* `"a\tb"`
        String |->
            <<"\"", "a", "\\", "t", "b", "\"">>,
        \* `2 // c`
        Comment |->
            <<"2", " ", "/", "/", " ", "c">>,
        \* `if true 1`
        If |->
            <<"i", "f", " ", "t", "r", "u", "e", " ", "1">>,
        \* `1 @`
        Illegal |->
            <<"1", " ", "@">>
    ]

Sources == {Text[n] : n \in DOMAIN Text}

\* the lines the input sink holds
InputLines == <<<<"o", "k">>>>

\* --------------------------------------------------------- the state machine
VARIABLES
    tables,     \* the SymbolTables; tables[1] is globalSymbolTable
    ctxs,       \* the Contexts built so far
    inp,        \* the lines waiting in the input sink
    out,        \* the lines the last run wrote to the output sink
    log,        \* the history of the last run
    entry,      \* how the last run was started: "visit", "execute" or "none"
    source,     \* the source text of the last execute
    tokens,     \* the tokens the lexer of the last execute returned
    program,    \* the AST the last run evaluated
    result,     \* what the last run returned: [value, error, thrown]
    runs,       \* the number of runs so far
    operation   \* the application at hand: [fn, this, op, other] or [fn, tokens]; fn "none" for none

vars == <<tables, ctxs, inp, out, log, entry, source, tokens, program, result, runs,
          operation>>

Root == 1

\* let globalSymbolTable, with pi, print and prompt
globalSymbolTable ==
    [symbols |-> [n \in {PI, PRINT, PROMPT} |->
                     CASE n = PI -> DPLNumber(3)
                       [] n = PRINT -> DPLBuiltInFunction(PRINT)
                       [] n = PROMPT -> DPLBuiltInFunction(PROMPT)],
     parent |-> NullRef]

Init ==
    /\ tables = <<globalSymbolTable>>
    /\ ctxs = <<>>
    /\ inp = InputLines
    /\ out = <<>>
    /\ log = <<>>
    /\ entry = "none"
    /\ source = <<>>
    /\ tokens = <<>>
    /\ program = NullNode
    /\ result = [value |-> Undefined, error |-> NoError, thrown |-> NoThrow]
    /\ runs = 0
    /\ operation = [fn |-> "none"]

\* the heap a run starts from
Idle == [tables |-> tables, ctxs |-> ctxs, out |-> <<>>, inp |-> inp, log |-> <<>>]

\* an interpreter stage that starts from a new table of pi, print and prompt
InterpretFresh(ast) ==
    Visit(ast, Len(ctxs) + 1,
          [Idle EXCEPT !.tables[Root] = globalSymbolTable,
                       !.ctxs = Append(@, Context(<<"<", "p", "r", "o", "g", "r", "a", "m", ">">>,
                                                  NullRef, NoPos, Root))],
          0)

\* the interpreter stage of execute: a new Context("<program>") over
\* globalSymbolTable, then interpreter.visit(ast, context)
Interpret(ast) ==
    Visit(ast, Len(ctxs) + 1,
          [Idle EXCEPT !.ctxs = Append(@, Context(<<"<", "p", "r", "o", "g", "r", "a", "m", ">">>,
                                                  NullRef, NoPos, Root))],
          0)

\* execute(file, input): [r, tokens, ast], r being what the call returns or throws
execute(input) ==
    LET parsed(lexed, res) ==
            IF Thrown(res)
            THEN [r |-> Throw(Idle, res.thrown), tokens |-> lexed.tokens, ast |-> NullNode]
            ELSE IF HasError(res)
                 THEN [r |-> [Failure(Idle, res.error) EXCEPT !.value = NullValue],
                       tokens |-> lexed.tokens, ast |-> NullNode]
            ELSE [r |-> Interpret(res.node), tokens |-> lexed.tokens, ast |-> res.node]
        lexed(l) ==
            IF l.error # NoError
            THEN [r |-> [Failure(Idle, l.error) EXCEPT !.value = NullValue],
                  tokens |-> l.tokens, ast |-> NullNode]
            ELSE parsed(l, parse(l.tokens))
    IN lexed(getTokens(input))

\* a run of the whole pipeline on a source text
Execute(input) ==
    LET finish(e) ==
            /\ tables' = e.r.st.tables
            /\ ctxs' = e.r.st.ctxs
            /\ inp' = e.r.st.inp
            /\ out' = e.r.st.out
            /\ log' = e.r.st.log
            /\ result' = [value |-> e.r.value, error |-> e.r.error, thrown |-> e.r.thrown]
            /\ tokens' = e.tokens
            /\ program' = e.ast
    IN /\ runs < MaxRuns
       /\ finish(execute(input))
       /\ entry' = "execute"
       /\ source' = input
       /\ runs' = runs + 1
       /\ UNCHANGED operation

\* a run of Interpreter.visit on an AST, in a new program Context
Evaluate(ast) ==
    LET finish(r) ==
            /\ tables' = r.st.tables
            /\ ctxs' = r.st.ctxs
            /\ inp' = r.st.inp
            /\ out' = r.st.out
            /\ log' = r.st.log
            /\ result' = [value |-> r.value, error |-> r.error, thrown |-> r.thrown]
    IN /\ runs < MaxRuns
       /\ finish(Interpret(ast))
       /\ entry' = "visit"
       /\ source' = <<>>
       /\ tokens' = <<>>
       /\ program' = ast
       /\ runs' = runs + 1
       /\ UNCHANGED operation

Next ==
    \/ \E input \in Sources : Execute(input)
    \/ \E ast \in Programs : Evaluate(ast)

Spec == Init /\ [][Next]_vars

\* ------------------------------------------------- the operators of the values
\* one value of each class and payload the operators tell apart
Values ==
    {DPLNone, DPLNumber(0), DPLNumber(1), DPLNumber(7), DPLNumber(0 - 3), DPLBool(TRUE),
     DPLBool(FALSE), DPLString(<<>>), DPLString(<<"a">>),
     DPLFunction(<<"f">>, Ast.ReadX, <<>>), DPLBuiltInFunction(PRINT)}

RECURSIVE Phrases(_)
\* the sequences of at most n lexemes, each a [type, value] pair, of the lexemes
\* that start no nested construct
Phrases(n) ==
    LET word(type, value) == [type |-> type, value |-> value]
        Words == {word("NUMBER", <<"1">>), word("IDENTIFIER", <<"x">>), word("PLUS", <<"+">>),
                  word("RPAREN", <<")">>), word("LBRACE", <<"{">>), word("RBRACE", <<"}">>),
                  word("SEMICOLON", <<";">>), word("COMMA", <<",">>), word("ASSIGN", <<":">>),
                  word("KEYWORD", <<"e", "l", "s", "e">>)}
    IN IF n = 0 THEN {<<>>}
       ELSE Phrases(n - 1)
               \cup {Append(p, w) : p \in {q \in Phrases(n - 1) : Len(q) = n - 1}, w \in Words}

\* token sequences derived from the grammar: one for each construct that ends
\* with a block, and the parenthesised ones
Phrase ==
    LET word(type, value) == [type |-> type, value |-> value]
        kw(value) == word("KEYWORD", value)
        x == word("IDENTIFIER", <<"x">>)
        one == word("NUMBER", <<"1">>)
        two == word("NUMBER", <<"2">>)
        open == word("LBRACE", <<"{">>)
        close == word("RBRACE", <<"}">>)
    IN [
        \* if x { 1 }
        If |-> <<kw(<<"i", "f">>), x, open, one, close>>,
        \* if x { 1 } else { 2 }
        IfElse |-> <<kw(<<"i", "f">>), x, open, one, close, kw(<<"e", "l", "s", "e">>), open,
                     two, close>>,
        \* while x { 1 }
        While |-> <<kw(<<"w", "h", "i", "l", "e">>), x, open, one, close>>,
        \* for x : 1 to 2 { 1 }
        For |-> <<kw(<<"f", "o", "r">>), x, word("ASSIGN", <<":">>), one, kw(<<"t", "o">>), two,
                  open, one, close>>,
        \* fn x ( ) { 1 }
        Fn |-> <<kw(<<"f", "n">>), x, word("LPAREN", <<"(">>), word("RPAREN", <<")">>), open, one,
                 close>>,
        \* while x { 1 } ; 2
        WhileThen |-> <<kw(<<"w", "h", "i", "l", "e">>), x, open, one, close,
                        word("SEMICOLON", <<";">>), two>>,
        \* ( 1 ) + 2
        Paren |-> <<word("LPAREN", <<"(">>), one, word("RPAREN", <<")">>), word("PLUS", <<"+">>),
                    two>>,
        \* x ( 1 , 2 )
        Call |-> <<x, word("LPAREN", <<"(">>), one, word("COMMA", <<",">>), two,
                   word("RPAREN", <<")">>)>>
       ]

\* token sequences of expressions: x op y op z for every two binary operators, a
\* sign before a power, and argument and parameter lists with their commas in and
\* out of place
Sentences ==
    LET word(type, value) == [type |-> type, value |-> value]
        matcher(type) == tokenMap[CHOOSE k \in DOMAIN tokenMap : tokenMap[k].type = type]
        lexeme(m) == IF m.regex = "literal" THEN m.text ELSE m.words[1]
        op(type) == word(type, lexeme(matcher(type)))
        x == word("IDENTIFIER", <<"x">>)
        y == word("IDENTIFIER", <<"y">>)
        z == word("IDENTIFIER", <<"z">>)
        fn == word("KEYWORD", <<"f", "n">>)
        one == word("NUMBER", <<"1">>)
        open == word("LBRACE", <<"{">>)
        close == word("RBRACE", <<"}">>)
        Binary == {"AND", "OR", "XOR", "EQ", "NEQ", "LT", "LE", "GT", "GE", "PLUS", "MINUS",
                   "MUL", "DIV", "MOD", "POW"}
        Lists == {<<y>>, <<y, op("COMMA"), z>>, <<y, op("COMMA")>>, <<op("COMMA"), y>>,
                  <<op("COMMA")>>, <<y, op("COMMA"), op("COMMA"), z>>, <<y, z>>,
                  <<y, op("COMMA"), z, op("COMMA")>>}
    IN {<<x, op(a), y, op(b), z>> : a \in Binary, b \in Binary}
          \cup {<<op(s), x, op("POW"), y>> : s \in {"PLUS", "MINUS"}}
          \cup {<<x, op("LPAREN")>> \o l \o <<op("RPAREN")>> : l \in Lists}
          \cup {<<fn, op("LPAREN")>> \o l \o <<op("RPAREN"), open, one, close>> : l \in Lists}

RECURSIVE Strings(_)
\* the source texts of at most n characters of a quote, a backslash, a letter, a
\* digit, a space, a newline, a slash and a star
Strings(n) ==
    IF n = 0 THEN {<<>>}
    ELSE Strings(n - 1)
            \cup {Append(s, c) : s \in {q \in Strings(n - 1) : Len(q) = n - 1},
                                 c \in {"\"", "\\", "n", "1", " ", "\n", "/", "*"}}

\* source texts given to the lexer alone
Script ==
    [
     \* "\n\t"
     TwoEscapes |-> <<"\"", "\\", "n", "\\", "t", "\"">>,
     \* "\u0041"
     Unicode |-> <<"\"", "\\", "u", "0", "0", "4", "1", "\"">>,
     \* "\q\""
     Quoted |-> <<"\"", "\\", "q", "\\", "\"", "\"">>,
     \* "a\\n"
     Backslash |-> <<"\"", "a", "\\", "\\", "n", "\"">>,
     \* /* a */ x /* b */
     TwoComments |-> <<"/", "*", " ", "a", " ", "*", "/", " ", "x", " ", "/", "*", " ", "b",
                       " ", "*", "/">>,
     \* /**/1/**/
     Between |-> <<"/", "*", "*", "/", "1", "/", "*", "*", "/">>,
     \* x // c <newline> /* <newline> */ y := "s"
     Lines |-> <<"x", " ", "/", "/", " ", "c", "\n", "/", "*", "\n", "*", "/", " ", "y", " ",
                 ":", "=", " ", "\"", "s", "\"">>
    ]

\* the tokens of a phrase: lexeme k stands at offset 2 * (k - 1), and EOF ends them
Lexemes(phrase) ==
    [k \in 1..(Len(phrase) + 1) |->
        IF k <= Len(phrase)
        THEN Token(phrase[k].type, phrase[k].value, Position(2 * (k - 1), 0, 2 * (k - 1)),
                   Position(2 * (k - 1) + 1, 0, 2 * (k - 1) + 1))
        ELSE EOFToken(Position(2 * (k - 1), 0, 2 * (k - 1)))]

\* this.binaryOp(op, other) on two values of the program context, `this` read at
\* offset 0 and `other` at offset 4; new Parser(tokens).parse() on a token sequence:
\* a short one of any lexemes, a sequence of Phrase cut off after any lexeme, or one
\* of Sentences; new Lexer(file, input).getTokens() on a source text
Operations ==
    [fn : {"binaryOp"}, this : Values, other : Values,
     op : {"EQ", "NEQ", "DIV", "MOD", "PLUS", "LT"}]
    \cup [fn : {"parse"},
          tokens : {Lexemes(p) : p \in Phrases(MaxTokens) \cup Sentences
                                      \cup UNION {{SubSeq(Phrase[n], 1, k) :
                                                       k \in 0..Len(Phrase[n])} :
                                                  n \in DOMAIN Phrase}}]
    \cup [fn : {"getTokens"},
          input : Strings(MaxChars) \cup Sources \cup {Script[n] : n \in DOMAIN Script}]

OperationInit ==
    /\ tables = <<globalSymbolTable>>
    /\ ctxs = <<Context(<<"<", "p", "r", "o", "g", "r", "a", "m", ">">>, NullRef, NoPos, Root)>>
    /\ inp = InputLines
    /\ out = <<>>
    /\ log = <<>>
    /\ entry = "none"
    /\ source = <<>>
    /\ tokens = <<>>
    /\ program = NullNode
    /\ result = [value |-> Undefined, error |-> NoError, thrown |-> NoThrow]
    /\ runs = 0
    /\ operation \in Operations

\* the operand of the operation as the interpreter hands it over
Operand(v, offset) ==
    setContext(setPos(v, Position(offset, 0, offset), Position(offset + 1, 0, offset + 1)), 1)

\* the call this.binaryOp(op, other)
ApplyBinaryOp ==
    LET returned(pair) ==
            result' = [value |-> pair.value, error |-> pair.error, thrown |-> NoThrow]
    IN /\ entry = "none"
       /\ operation.fn = "binaryOp"
       /\ returned(binaryOp(Operand(operation.this, 0), operation.op,
                            Operand(operation.other, 4)))
       /\ entry' = "binaryOp"
       /\ runs' = runs + 1
       /\ UNCHANGED <<tables, ctxs, inp, out, log, source, tokens, program, operation>>

\* the call new Parser(tokens).parse(); the result keeps the cursor this.i
ApplyParse ==
    LET returned(res) ==
            /\ result' = [value |-> res.node, error |-> res.error, thrown |-> res.thrown,
                          i |-> res.i]
            /\ program' = IF Thrown(res) \/ HasError(res) THEN NullNode ELSE res.node
    IN /\ entry = "none"
       /\ operation.fn = "parse"
       /\ returned(parse(operation.tokens))
       /\ entry' = "parse"
       /\ tokens' = operation.tokens
       /\ runs' = runs + 1
       /\ UNCHANGED <<tables, ctxs, inp, out, log, source, operation>>

\* the call new Lexer(file, input).getTokens()
ApplyGetTokens ==
    LET returned(res) ==
            /\ result' = [value |-> res.tokens, error |-> res.error, thrown |-> NoThrow]
            /\ tokens' = res.tokens
    IN /\ entry = "none"
       /\ operation.fn = "getTokens"
       /\ returned(getTokens(operation.input))
       /\ entry' = "getTokens"
       /\ source' = operation.input
       /\ runs' = runs + 1
       /\ UNCHANGED <<tables, ctxs, inp, out, log, program, operation>>

OperationNext ==
    \/ ApplyBinaryOp
    \/ ApplyParse
    \/ ApplyGetTokens

OperationSpec == OperationInit /\ [][OperationNext]_vars

\* ---------------------------------------------------------------- history
Calls == {k \in DOMAIN log : log[k].ev = "call"}
Returns == {k \in DOMAIN log : log[k].ev = "return"}
Enters == {k \in DOMAIN log : log[k].ev = "enter"}

\* the call event of the call that return event k ends
CallOf(k) == CHOOSE c \in Calls : log[c].context = log[k].context

\* the exit event of the visit that enter event k starts
ExitOf(k) ==
    CHOOSE j \in (k + 1)..Len(log) :
        /\ log[j].ev = "exit" /\ log[j].depth = log[k].depth
        /\ \A m \in (k + 1)..(j - 1) : ~(log[m].ev = "exit" /\ log[m].depth = log[k].depth)

Succeeded(e) == e.error = NoError /\ e.thrown = NoThrow

\* the number of parameters of a function value
Arity(fn) == IF fn.class = "DPLFunction" THEN Len(fn.params) ELSE 1

\* ------------------------------------------------------------------ claims
\* C1: every call of a user-defined Function runs in a context whose symbol
\* table's parent is the symbol table of the context the function was defined
\* in, whatever context it is looked up in and called from.
C1_ClosureCapture ==
    \A k \in Calls :
        log[k].fn.class = "DPLFunction" =>
            tables[ctxs[log[k].context].symbolTable].parent
                = ctxs[log[k].fn.definedIn].symbolTable

\* C2: for every source text, execute returns (it does not throw) a result in
\* which exactly one of value and error is populated: a failure of the lexer, the
\* parser or the interpreter gives an error and no value, a success a value and
\* no error.
C2_ExactlyOneOfValueAndError ==
    entry = "execute" =>
        /\ result.thrown = NoThrow
        /\ IsDefined(result.value) # (result.error # NoError)

\* C3: Interpreter.visit never raises a host exception: it returns a
\* RuntimeResult that carries a value or a RuntimeError.
C3_VisitNeverThrows ==
    program # NullNode =>
        /\ result.thrown = NoThrow
        /\ IsDefined(result.value) \/ IsRuntimeError(result.error)

\* C4: when a call returns, every symbol table that existed when the call was
\* made (the caller's and every outer one) has the bindings it had at the call.
C4_CallLeavesOuterTablesUnchanged ==
    \A k \in Returns :
        LET c == log[CallOf(k)]
        IN \A t \in 1..(Len(c.tables) - 1) : log[k].tables[t] = c.tables[t]

\* C4 witness: a call has returned whose parameter has the name of a variable the
\* root table binds, and the call left its own binding of that name different
\* from the outer one.
C4_Witness ==
    \E k \in Returns :
        /\ log[k].fn.class = "DPLFunction" /\ Succeeded(log[k])
        /\ \E i \in DOMAIN log[k].fn.params :
              LET n == log[k].fn.params[i]
                  own == log[k].tables[ctxs[log[k].context].symbolTable].symbols
              IN /\ n \in DOMAIN tables[Root].symbols
                 /\ n \in DOMAIN own
                 /\ own[n].value # tables[Root].symbols[n].value

RECURSIVE Chain(_)
\* the tables on the parent chain of table t, t first
Chain(t) == IF tables[t].parent = NullRef THEN <<t>> ELSE <<t>> \o Chain(tables[t].parent)

NoSuchName == <<"_">>

\* every name some table binds, and one that none binds
KnownNames == UNION {DOMAIN tables[t].symbols : t \in DOMAIN tables} \cup {NoSuchName}

\* C5: get(name) is the binding of the nearest table of the parent chain that
\* binds name, and null exactly when no table of the chain binds it.
C5_GetReturnsNearestBinding ==
    \A t \in DOMAIN tables : \A n \in KnownNames :
        LET chain == Chain(t)
            binders == {k \in DOMAIN chain : n \in DOMAIN tables[chain[k]].symbols}
            nearest == CHOOSE k \in binders : \A j \in binders : k <= j
        IN IF binders = {} THEN get(tables, t, n) = NullValue
           ELSE get(tables, t, n) = tables[chain[nearest]].symbols[n]

\* C5 witness: a table shadows a name of its parent, a lookup from the table
\* gives the inner binding and a lookup from the parent gives the outer one; and
\* some name bound in a table is not found from that table's parent.
C5_Witness ==
    /\ \E t \in DOMAIN tables : \E n \in DOMAIN tables[t].symbols :
          /\ tables[t].parent # NullRef
          /\ n \in DOMAIN tables[tables[t].parent].symbols
          /\ tables[t].symbols[n].value # tables[tables[t].parent].symbols[n].value
          /\ get(tables, t, n) = tables[t].symbols[n]
          /\ get(tables, tables[t].parent, n) = tables[tables[t].parent].symbols[n]
    /\ \E t \in DOMAIN tables : \E n \in DOMAIN tables[t].symbols :
          /\ tables[t].parent # NullRef
          /\ get(tables, tables[t].parent, n) = NullValue

\* C6: a call with a number of arguments different from the number of parameters
\* yields the arity RuntimeError, binds no parameter, evaluates no body and
\* performs no built-in effect.
C6_ArityCheckedFirst ==
    \A k \in Returns :
        LET c == log[CallOf(k)]
            own == ctxs[log[k].context].symbolTable
        IN Len(c.args) # Arity(c.fn) =>
              /\ log[k].thrown = NoThrow
              /\ log[k].error # NoError
              /\ log[k].error.kind = "RuntimeError"
              /\ log[k].error.message =
                    [text |-> "Expected arguments but got", expected |-> Arity(c.fn),
                     got |-> Len(c.args)]
              /\ DOMAIN log[k].tables[own].symbols = {}
              /\ log[k].out = c.out
              /\ \A e \in Enters : log[e].context # log[k].context

\* C7: a built-in call dispatches by name: print writes its argument and returns
\* it; prompt writes the prompt, reads one line and returns that line as a
\* String; any other name is an undefined built-in RuntimeError.
C7_BuiltInDispatch ==
    \A k \in Returns :
        LET c == log[CallOf(k)]
        IN (c.fn.class = "DPLBuiltInFunction" /\ Len(c.args) = 1) =>
              CASE c.fn.name = PRINT ->
                     /\ Succeeded(log[k])
                     /\ log[k].out = Append(c.out, toString(c.args[1]))
                     /\ log[k].value.type = c.args[1].type
                     /\ log[k].value.value = c.args[1].value
                [] c.fn.name = PROMPT ->
                     /\ Succeeded(log[k])
                     /\ log[k].out = Append(c.out, toString(c.args[1]))
                     /\ log[k].value.type = "STRING"
                     /\ c.inp # <<>> => log[k].value.value = JsStr(Head(c.inp))
                [] OTHER ->
                     /\ log[k].error # NoError
                     /\ log[k].error.message.text = "Undefined BuiltInFunction"

\* the exit events of the children of the program's root node, in order
ChildExits == SelectSeq(log, LAMBDA e : e.ev = "exit" /\ e.depth = 1)

\* C8: visiting a Statements node evaluates the children in order; the result is
\* the value of the last child, or None without children; the first failing
\* child's failure is the result and no later child is evaluated.
C8_StatementsInOrder ==
    (runs > 0 /\ program.type = "StatementsNode") =>
        LET kids == ChildExits
            n == Len(kids)
        IN /\ result.thrown = NoThrow
           /\ n <= Len(program.statements)
           /\ \A i \in 1..n : kids[i].node = program.statements[i]
           /\ \A i \in 1..(n - 1) : Succeeded(kids[i])
           /\ IF program.statements = <<>> THEN result.value.type = "NONE"
              ELSE /\ n >= 1
                   /\ IF Succeeded(kids[n])
                      THEN /\ n = Len(program.statements)
                           /\ result.error = NoError
                           /\ result.value = kids[n].value
                      ELSE result.error = kids[n].error

\* C9: the source `fn add(a, b) { a + b }; add(2, 3)` is lexed, parsed and
\* evaluated without a diagnostic and the value of the program is the Number 5.
C9_EndToEndAdd ==
    (entry = "execute" /\ source = Text.Add) =>
        /\ result.thrown = NoThrow
        /\ result.error = NoError
        /\ result.value.type = "NUMBER"
        /\ result.value.value = JsNum(5)

\* C10: a BinaryOp evaluates its left operand first; when the left operand
\* succeeds the right operand is evaluated next, whatever the operator and the
\* left value; when the left operand fails, the BinaryOp ends with that failure,
\* the right operand is not evaluated and no table changes.
C10_LeftThenRight ==
    \A k \in Enters :
        log[k].node.type = "BinaryOpNode" =>
            LET n == log[k].node
                d == log[k].depth
                l == k + 1
                lx == ExitOf(l)
            IN /\ log[l].ev = "enter" /\ log[l].node = n.left /\ log[l].depth = d + 1
               /\ log[l].context = log[k].context
               /\ IF Succeeded(log[lx])
                  THEN /\ log[lx + 1].ev = "enter" /\ log[lx + 1].node = n.right
                       /\ log[lx + 1].depth = d + 1
                       /\ log[lx + 1].context = log[k].context
                       /\ ExitOf(k) = ExitOf(lx + 1) + 1
                  ELSE /\ ExitOf(k) = lx + 1
                       /\ log[lx + 1].error = log[lx].error
                       /\ log[lx + 1].thrown = log[lx].thrown
                       /\ log[lx + 1].tables = log[lx].tables

\* C10 witness: in one run an AND whose left operand is false has evaluated its
\* right operand (an assignment that took effect), and a PLUS whose left operand
\* failed has ended without its right operand's assignment.
C10_Witness ==
    /\ program = Ast.BothSides
    /\ \E k \in Enters :
          /\ log[k].node.type = "BinaryOpNode" /\ log[k].node.op.type = "AND"
          /\ log[ExitOf(k + 1)].value.value = JsBool(FALSE)
          /\ log[ExitOf(k + 1) + 1].node = log[k].node.right
    /\ \E k \in Enters :
          /\ log[k].node.type = "BinaryOpNode" /\ log[k].node.op.type = "PLUS"
          /\ ~Succeeded(log[ExitOf(k + 1)])
    /\ <<"y">> \in DOMAIN tables[Root].symbols
    /\ <<"x">> \notin DOMAIN tables[Root].symbols

\* the call node of enter event k has evaluated its callee and every argument
\* into vals; p is the next event of the history
Invoked(k, p, vals) ==
    LET n == log[k].node
        fn == setPos(copy(vals[1]), n.posStart, n.posEnd)
    IN IF fn.type = "FN" /\ fn.context # NullRef
       THEN /\ log[p].ev = "call" /\ log[p].depth = log[k].depth + 1
            /\ log[p].fn = fn
            /\ log[p].args = Tail(vals)
       ELSE /\ ExitOf(k) = p
            /\ ~Succeeded(log[p])

RECURSIVE CallSteps(_, _, _, _)
\* from event p on, the call node of enter event k evaluates operand i (1 the
\* callee, i + 1 argument i) and the operands after it, and then invokes
CallSteps(k, i, p, vals) ==
    LET n == log[k].node
        operands == <<n.fn>> \o n.args
        x == ExitOf(p)
    IN IF i > Len(operands) THEN Invoked(k, p, vals)
       ELSE /\ log[p].ev = "enter" /\ log[p].node = operands[i]
            /\ log[p].depth = log[k].depth + 1
            /\ log[p].context = log[k].context
            /\ IF Succeeded(log[x]) THEN CallSteps(k, i + 1, x + 1, Append(vals, log[x].value))
               ELSE /\ ExitOf(k) = x + 1
                    /\ log[x + 1].error = log[x].error
                    /\ log[x + 1].thrown = log[x].thrown
                    /\ log[x + 1].tables = log[x].tables

\* C11: a Call evaluates the callee first, then each argument left to right,
\* and only then invokes the callee with those values; when the callee or an
\* argument fails, the Call ends with that failure at once: no later argument
\* is evaluated and the callee is not invoked.
C11_CalleeThenArgsThenInvoke ==
    \A k \in Enters : log[k].node.type = "CallNode" => CallSteps(k, 1, k + 1, <<>>)

\* C11 witness: in one run a call with one argument was invoked with the value of
\* that argument, and a call whose second argument failed ended without its
\* third argument's assignment and without being invoked.
C11_Witness ==
    /\ program = Ast.ArgFails
    /\ \E c \in Calls : log[c].fn.name = PRINT /\ Len(log[c].args) = 1
                        /\ log[c].args[1].value = JsNum(1)
    /\ \A c \in Calls : Len(log[c].args) # 3
    /\ result.error # NoError /\ result.error.message.text = "Division by 0"
    /\ <<"y">> \notin DOMAIN tables[Root].symbols

\* the enter events of the start, end and step operands of the For of enter event k
ForStart(k) == k + 1
ForEnd(k) == ExitOf(ForStart(k)) + 1
ForStep(k) == ExitOf(ForEnd(k)) + 1

\* the step of a For whose operands succeeded: the value of the step operand, or 1
StepOf(k) ==
    IF log[k].node.step = NullNode THEN 1 ELSE log[ExitOf(ForStep(k))].value.value.num

\* the enter events of the body of the For of enter event k, in order
BodyEnters(k) ==
    SelectSeq([j \in 1..(ExitOf(k) - k) |-> k + j],
              LAMBDA j : /\ log[j].ev = "enter" /\ log[j].depth = log[k].depth + 1
                         /\ log[j].node = log[k].node.body
                         /\ log[j].context = log[k].context)

\* floor((e - s) / k) + 1 where k leads from s to e, 0 where it does not
Iterations(s, e, k) ==
    IF k > 0 /\ s <= e THEN ((e - s) \div k) + 1
    ELSE IF k < 0 /\ s >= e THEN ((s - e) \div (0 - k)) + 1
    ELSE 0

\* the For visits that ended without a failure and with a step other than 0
CompletedFors ==
    {k \in Enters : /\ log[k].node.type = "ForNode"
                    /\ Succeeded(log[ExitOf(k)])
                    /\ StepOf(k) # 0}

\* C12: a For loop from s to e by step k that ends without a failure has evaluated
\* its body floor((e - s) / k) + 1 times when k leads from s to e (both bounds
\* included) and not at all when it does not.
C12_ForIterationCount ==
    \A k \in CompletedFors :
        Len(BodyEnters(k)) = Iterations(log[ExitOf(ForStart(k))].value.value.num,
                                        log[ExitOf(ForEnd(k))].value.value.num,
                                        StepOf(k))

\* C12 witness: the loop from 5 down to 0 by -1 has ended after 6 iterations.
C12_Witness ==
    /\ program = Ast.ForDown
    /\ \E k \in CompletedFors : StepOf(k) = 0 - 1 /\ Len(BodyEnters(k)) = 6
    /\ result.value.type = "NONE"

\* the For visits whose operands were evaluated to Numbers, the step not being 0
StartedFors ==
    {k \in Enters : /\ log[k].node.type = "ForNode"
                    /\ (Succeeded(log[ExitOf(k)]) \/ BodyEnters(k) # <<>>)
                    /\ StepOf(k) # 0}

\* the last operand of the For of enter event k: its step, or its end without one
LastOperand(k) == IF log[k].node.step = NullNode THEN ForEnd(k) ELSE ForStep(k)

\* C13: the loop variable of a For is bound in the symbol table of the context
\* the loop runs in: when the k-th iteration starts, that table binds it to
\* start + (k-1)*step and no table was added for the iteration; the tables at
\* the end of the loop are those the last iteration left, so the variable stays
\* bound there (to the last iteration's value when the body left it alone); a
\* loop of zero iterations leaves every table as it was after its operands.
C13_ForBindsInCurrentTable ==
    \A k \in StartedFors :
        LET var == log[k].node.varName.value
            table == ctxs[log[k].context].symbolTable
            s == log[ExitOf(ForStart(k))].value.value.num
            body == BodyEnters(k)
            n == Len(body)
        IN /\ \A m \in 1..n :
                 /\ var \in DOMAIN log[body[m]].tables[table].symbols
                 /\ log[body[m]].tables[table].symbols[var] = DPLNumber(s + (m - 1) * StepOf(k))
                 /\ get(log[body[m]].tables, table, var) = DPLNumber(s + (m - 1) * StepOf(k))
                 /\ Len(log[body[m]].tables) = Len(log[body[m] - 1].tables)
           /\ Succeeded(log[ExitOf(k)]) =>
                 IF n = 0 THEN log[ExitOf(k)].tables = log[ExitOf(LastOperand(k))].tables
                 ELSE /\ log[ExitOf(k)].tables = log[ExitOf(body[n])].tables
                      /\ var \in DOMAIN log[ExitOf(k)].tables[table].symbols
                      /\ (log[ExitOf(body[n])].tables[table].symbols[var]
                             = log[body[n]].tables[table].symbols[var]) =>
                            log[ExitOf(k)].tables[table].symbols[var].value
                               = JsNum(s + (n - 1) * StepOf(k))

\* C13 witness: a loop from 0 to 1 inside a function call has ended; the call's
\* own table binds i to 1 and globalSymbolTable does not bind i.
C13_Witness ==
    /\ program = Ast.ForInCall
    /\ \E k \in StartedFors :
          /\ Len(BodyEnters(k)) = 2
          /\ ctxs[log[k].context].symbolTable # Root
          /\ tables[ctxs[log[k].context].symbolTable].symbols[<<"i">>].value = JsNum(1)
    /\ <<"i">> \notin DOMAIN tables[Root].symbols

\* the If of enter event k ends with the visit of the branch entered at event p
TakesBranch(k, p, branch) ==
    /\ log[p].ev = "enter" /\ log[p].node = branch
    /\ log[p].depth = log[k].depth + 1 /\ log[p].context = log[k].context
    /\ ExitOf(k) = ExitOf(p) + 1
    /\ log[ExitOf(k)].value = log[ExitOf(p)].value
    /\ log[ExitOf(k)].error = log[ExitOf(p)].error
    /\ log[ExitOf(k)].thrown = log[ExitOf(p)].thrown

\* C14: an If evaluates its condition first and once; a failed condition ends
\* the If with that failure; a condition that is not a Bool ends it with a
\* RuntimeError about the type, no branch evaluated; a true condition is
\* followed by the then-branch only and a false one by the else-branch only,
\* whose result is the result of the If; a false condition without an
\* else-branch yields None.
C14_IfEvaluatesOneBranch ==
    \A k \in Enters :
        log[k].node.type = "IfNode" =>
            LET n == log[k].node
                c == ExitOf(k + 1)
                end == log[c + 1]
            IN /\ log[k + 1].ev = "enter" /\ log[k + 1].node = n.condition
               /\ log[k + 1].depth = log[k].depth + 1
               /\ log[k + 1].context = log[k].context
               /\ IF ~Succeeded(log[c])
                  THEN /\ ExitOf(k) = c + 1
                       /\ end.error = log[c].error /\ end.thrown = log[c].thrown
                  ELSE IF log[c].value.type # "BOOL"
                  THEN /\ ExitOf(k) = c + 1
                       /\ end.thrown = NoThrow
                       /\ end.error.kind = "RuntimeError"
                       /\ end.error.message.text = "Condition should be type BOOL, got"
                       /\ end.error.message.type = log[c].value.type
                       /\ end.tables = log[c].tables
                  ELSE IF log[c].value.value = JsBool(TRUE)
                  THEN TakesBranch(k, c + 1, n.thenBranch)
                  ELSE IF n.elseBranch # NullNode
                  THEN TakesBranch(k, c + 1, n.elseBranch)
                  ELSE /\ ExitOf(k) = c + 1
                       /\ Succeeded(end) /\ end.value.type = "NONE"
                       /\ end.tables = log[c].tables

\* C14 witness: the If on 1 = 2 has taken its else-branch: y is 2, the value of
\* the If is 2, and the then-branch was not entered.
C14_Witness ==
    /\ program = Ast.IfElse
    /\ result.error = NoError /\ result.value.value = JsNum(2)
    /\ tables[Root].symbols[<<"y">>].value = JsNum(2)
    /\ \A k \in Enters : log[k].node # program.thenBranch

\* the class of a value: None, Number, Bool, String, Function or BuiltInFunction
Variant(v) == IF v.type = "FN" THEN v.class ELSE v.type

\* C15: EQ and NEQ of any two values, whatever their classes, return a Bool and
\* no diagnostic.
C15_EqualityTotal ==
    (entry = "binaryOp" /\ operation.op \in {"EQ", "NEQ"}) =>
        /\ result.error = NoError
        /\ result.value.type = "BOOL"

\* C16: for two values of different classes EQ is false and NEQ is true, in both
\* orders; for a value and itself EQ is true (and NEQ false).
C16_EqualityAcrossVariants ==
    (entry = "binaryOp" /\ operation.op \in {"EQ", "NEQ"}) =>
        /\ Variant(operation.this) # Variant(operation.other) =>
              /\ result.error = NoError
              /\ result.value.type = "BOOL"
              /\ result.value.value = JsBool(operation.op = "NEQ")
        /\ operation.this = operation.other =>
              /\ result.error = NoError
              /\ result.value.type = "BOOL"
              /\ result.value.value = JsBool(operation.op = "EQ")

\* C17: DIV and MOD of a Number by the Number 0 return a RuntimeError and no
\* value, and the span of the error is the span of the right operand; by a
\* Number other than 0 they return a Number and no error.
C17_DivisionByZero ==
    (/\ entry = "binaryOp" /\ operation.op \in {"DIV", "MOD"}
     /\ operation.this.type = "NUMBER" /\ operation.other.type = "NUMBER") =>
        IF operation.other.value = JsNum(0)
        THEN /\ result.error.kind = "RuntimeError"
             /\ ~IsDefined(result.value)
             /\ result.error.posStart = Operand(operation.other, 4).posStart
             /\ result.error.posEnd = Operand(operation.other, 4).posEnd
        ELSE /\ result.error = NoError
             /\ result.value.type = "NUMBER"

\* C17 witness: 7 % 0 has returned the RuntimeError "Modulus by 0" whose span is
\* the span of the right operand.
C17_Witness ==
    /\ entry = "binaryOp" /\ operation.op = "MOD"
    /\ operation.this = DPLNumber(7) /\ operation.other = DPLNumber(0)
    /\ result.error # NoError
    /\ result.error.message.text = "Modulus by 0"
    /\ result.error.posStart.i = 4 /\ result.error.posEnd.i = 5

\* the first event of the history that carries the error the run ended with
Origin == CHOOSE j \in DOMAIN log :
             /\ log[j].ev = "exit" /\ log[j].error = result.error
             /\ \A m \in 1..(j - 1) : ~(log[m].ev = "exit" /\ log[m].error = result.error)

\* the call events of the calls that have not returned at event j, outermost first
OpenCalls(j) ==
    SelectSeq([c \in 1..(j - 1) |-> c],
              LAMBDA c : /\ log[c].ev = "call"
                         /\ \A r \in (c + 1)..(j - 1) :
                               ~(log[r].ev = "return" /\ log[r].context = log[c].context))

\* the enter event of the Call node that call event c belongs to
CallSite(c) ==
    CHOOSE k \in 1..(c - 1) :
        /\ log[k].ev = "enter" /\ log[k].node.type = "CallNode"
        /\ log[k].depth = log[c].depth - 1
        /\ \A m \in (k + 1)..(c - 1) : ~(log[m].ev = "enter" /\ log[m].depth = log[k].depth)

\* C18: the traceback of a RuntimeError raised inside n nested function calls has
\* n + 1 frames, root first: the program frame, then one frame per call, each
\* call shown at the position of the call, the last frame at the position of the
\* error; the Context of every call has the context the call was made from as
\* its parent and the position of the call as its entry position; every parent
\* was built before its child, so the chain ends.
C18_TracebackFrames ==
    /\ \A c \in DOMAIN ctxs : ctxs[c].parent < c
    /\ \A c \in Calls :
          /\ ctxs[log[c].context].parent = log[CallSite(c)].context
          /\ ctxs[log[c].context].parentEntryPos = log[CallSite(c)].node.posStart
    /\ (entry = "visit" /\ IsRuntimeError(result.error)) =>
          LET open == OpenCalls(Origin)
              str == generateTraceback(ctxs, result.error.posStart, result.error.context, <<>>)
          IN /\ Len(str) = Len(open) + 1
             /\ str[1].name = <<"<", "p", "r", "o", "g", "r", "a", "m", ">">>
             /\ str[Len(str)].pos = result.error.posStart
             /\ \A i \in 1..Len(open) :
                   /\ str[i + 1].name = log[open[i]].fn.name
                   /\ str[i].pos = log[CallSite(open[i])].node.posStart

\* C19: when parse returns without a diagnostic its cursor is on the EOF token,
\* the last token of the sequence; when the statements rule returns without a
\* diagnostic and leaves the cursor on a token before EOF, parse returns a
\* SyntaxError about that token.
C19_ParseEndsOnEOF ==
    entry = "parse" =>
        /\ Succeeded(result) =>
              /\ result.i + 1 = Len(tokens)
              /\ current(tokens, result.i).type = "EOF"
        /\ LET res == statements(tokens, 0)
           IN (Succeeded(res) /\ res.i + 1 < Len(tokens)) =>
                 /\ result.thrown = NoThrow
                 /\ result.error.kind = "SyntaxError"
                 /\ result.error.posStart = current(tokens, res.i).posStart
                 /\ result.error.message.text = "Unexpected"

\* C19 witness: `1 + 1` was parsed with the cursor left on EOF.
C19_Witness ==
    /\ entry = "parse" /\ Len(tokens) = 4 /\ tokens[2].type = "PLUS"
    /\ Succeeded(result) /\ result.i = 3
    /\ result.value.statements[1].type = "BinaryOpNode"

\* C20: each token sequence of Phrase, derived from the grammar, is parsed
\* without a diagnostic, the cursor ending on EOF after the closing RBRACE of
\* its construct, to the node of that construct: an If, a While, a For or a FnDef
\* (a BinaryOp and a Call for the two sequences that start without a keyword).
C20_BlocksAreClosed ==
    (entry = "parse" /\ \E n \in DOMAIN Phrase : tokens = Lexemes(Phrase[n])) =>
        /\ Succeeded(result)
        /\ current(tokens, result.i).type = "EOF"
        /\ result.value.statements[1].type
              = CASE tokens[1].value = <<"i", "f">> -> "IfNode"
                  [] tokens[1].value = <<"w", "h", "i", "l", "e">> -> "WhileNode"
                  [] tokens[1].value = <<"f", "o", "r">> -> "ForNode"
                  [] tokens[1].value = <<"f", "n">> -> "FnDefNode"
                  [] tokens[1].type = "LPAREN" -> "BinaryOpNode"
                  [] tokens[1].type = "IDENTIFIER" -> "CallNode"

\* C21: for a token sequence that ends with its only EOF token, parse() leaves
\* the cursor on a token of the sequence and no read of a token past the last one
\* has thrown; the cursor only grows, so it was within the sequence all along, and
\* next() was never called on EOF.
C21_CursorStaysInRange ==
    (/\ entry = "parse"
     /\ tokens[Len(tokens)].type = "EOF"
     /\ \A k \in 1..(Len(tokens) - 1) : tokens[k].type # "EOF") =>
        /\ result.thrown = NoThrow
        /\ InRange(tokens, result.i)
        /\ result.i >= 0

\* x EOF: expr() peeks at the last token, and the parse ends on it
C21_Witness ==
    /\ entry = "parse" /\ Len(tokens) = 2 /\ tokens[1].type = "IDENTIFIER"
    /\ peek(tokens, 0).type = "EOF"
    /\ Succeeded(result) /\ result.i + 1 = Len(tokens)

\* the precedence level of a binary operator
Level(type) ==
    CASE type \in {"AND", "OR", "XOR"} -> 1
      [] type \in {"EQ", "NEQ", "LT", "LE", "GT", "GE"} -> 2
      [] type \in {"PLUS", "MINUS"} -> 3
      [] type \in {"MUL", "DIV", "MOD"} -> 4
      [] type = "POW" -> 5
      [] OTHER -> 0

\* the tokens are x op y op z EOF with two operators of one level
IsChain ==
    /\ entry = "parse" /\ Len(tokens) = 6
    /\ \A k \in {1, 3, 5} : tokens[k].type = "IDENTIFIER"
    /\ Level(tokens[2].type) > 0
    /\ Level(tokens[2].type) = Level(tokens[4].type)

\* the tokens are a sign, x ^ y and EOF
IsSignedPower ==
    /\ entry = "parse" /\ Len(tokens) = 5
    /\ tokens[1].type \in {"PLUS", "MINUS"}
    /\ tokens[2].type = "IDENTIFIER" /\ tokens[3].type = "POW"
    /\ tokens[4].type = "IDENTIFIER"

\* C22: x op y op z with two operators of one level parses to (x op y) op z,
\* x ^ y ^ z to x ^ (y ^ z), and a sign before x ^ y to the sign applied to the
\* whole power.
C22_Associativity ==
    LET var(k) == VarAccessNode(tokens[k])
        only(node) ==
            /\ Succeeded(result)
            /\ result.value.statements = <<node>>
    IN /\ (IsChain /\ tokens[2].type # "POW") =>
              only(BinaryOpNode(tokens[4], BinaryOpNode(tokens[2], var(1), var(3)), var(5)))
       /\ (IsChain /\ tokens[2].type = "POW") =>
              only(BinaryOpNode(tokens[2], var(1), BinaryOpNode(tokens[4], var(3), var(5))))
       /\ IsSignedPower =>
              only(UnaryOpNode(tokens[1], BinaryOpNode(tokens[3], var(2), var(4))))

\* x ^ y ^ z has been parsed
C22_Witness ==
    /\ IsChain /\ tokens[2].type = "POW"
    /\ Succeeded(result)
    /\ result.value.statements[1].right.type = "BinaryOpNode"

\* the index of the first RPAREN of the tokens, 0 when there is none
FirstRParen ==
    IF \E k \in DOMAIN tokens : tokens[k].type = "RPAREN"
    THEN CHOOSE k \in DOMAIN tokens :
            /\ tokens[k].type = "RPAREN"
            /\ \A j \in 1..(k - 1) : tokens[j].type # "RPAREN"
    ELSE 0

\* the tokens from the a-th to the b-th are items separated by single commas: none
\* at all, or item (COMMA item)*
IsList(a, b) ==
    IF b < a THEN TRUE
    ELSE /\ (b - a) % 2 = 0
         /\ \A k \in a..b : (tokens[k].type = "COMMA") <=> ((k - a) % 2 = 1)

\* the tokens are x ( ... ) EOF or fn ( ... ) { 1 } EOF
IsListPhrase ==
    /\ entry = "parse" /\ Len(tokens) >= 4
    /\ tokens[2].type = "LPAREN"
    /\ \/ tokens[1].type = "IDENTIFIER" /\ FirstRParen = Len(tokens) - 1
       \/ /\ matches(tokens[1], "KEYWORD", <<"f", "n">>)
          /\ FirstRParen = Len(tokens) - 4
          /\ tokens[FirstRParen + 1].type = "LBRACE"

\* C23: an argument list and a parameter list are accepted exactly when their
\* items are separated by single commas with none leading or trailing; any other
\* list is rejected with a SyntaxError.
C23_CommaLists ==
    IsListPhrase =>
        /\ result.thrown = NoThrow
        /\ IF IsList(3, FirstRParen - 1)
           THEN Succeeded(result)
           ELSE result.error # NoError /\ result.error.kind = "SyntaxError"

\* C24: when the lexer succeeds, its last token is the only EOF token, and that
\* token is zero-width: its start and its end are both the final cursor position,
\* whose offset is the length of the input.
C24_EOFToken ==
    (entry = "getTokens" /\ result.error = NoError) =>
        /\ tokens # <<>>
        /\ tokens[Len(tokens)].type = "EOF"
        /\ \A k \in 1..(Len(tokens) - 1) : tokens[k].type # "EOF"
        /\ tokens[Len(tokens)].posStart.i = Len(source)
        /\ tokens[Len(tokens)].posEnd = tokens[Len(tokens)].posStart

RECURSIVE Decoded(_)
\* the text of a string literal with every escape sequence replaced, left to right
Decoded(s) ==
    IF s = <<>> THEN <<>>
    ELSE IF s[1] = "\\" /\ Len(s) >= 6 /\ s[2] = "u" /\ \A h \in 3..6 : IsHex(s[h])
         THEN <<FromCharCode(SubSeq(s, 3, 6))>> \o Decoded(SubSeq(s, 7, Len(s)))
    ELSE IF s[1] = "\\" /\ Len(s) >= 2 /\ s[2] # "u"
         THEN <<IF s[2] \in DOMAIN escapes THEN escapes[s[2]] ELSE s[2]>>
              \o Decoded(SubSeq(s, 3, Len(s)))
    ELSE <<s[1]>> \o Decoded(Tail(s))

\* the text between the quotes of the STRING token t
Literal(t) == SubSeq(source, t.posStart.i + 2, t.posEnd.i - 1)

\* C25: the value of every STRING token is the text between its quotes with
\* every escape sequence decoded: backslash and n, t, r, b or f to the control
\* character, \uXXXX to the character of that code, backslash and any other
\* character to that character.
C25_EscapesDecoded ==
    (entry = "getTokens" /\ result.error = NoError) =>
        \A k \in DOMAIN tokens :
            tokens[k].type = "STRING" => tokens[k].value = Decoded(Literal(tokens[k]))

\* the offsets of the newlines among the first n characters of the source
NewlinesBefore(n) == {j \in 1..n : source[j] = "\n"}

\* the position the cursor has after n characters of the source: offset n, one
\* line per newline consumed, and the characters since the last newline as column
Consumed(n) ==
    Position(n, Cardinality(NewlinesBefore(n)),
             IF NewlinesBefore(n) = {} THEN n
             ELSE n - (CHOOSE j \in NewlinesBefore(n) : \A h \in NewlinesBefore(n) : h <= j))

\* C26: every token emitted for a match starts at the cursor position before the
\* match and ends at the cursor position after it: the source text between the
\* two is the lexeme (the value itself, or the quoted literal of a STRING), each
\* token ends before the next one starts (the EOF token included), and every one
\* of these positions has the offset, line and column of the characters consumed.
C26_TokenPositions ==
    (entry = "getTokens" /\ result.error = NoError) =>
        /\ \A k \in 1..(Len(tokens) - 1) :
              /\ tokens[k].posStart = Consumed(tokens[k].posStart.i)
              /\ tokens[k].posEnd = Consumed(tokens[k].posEnd.i)
              /\ tokens[k].posStart.i >= 0
              /\ tokens[k].posEnd.i <= Len(source)
              /\ tokens[k].posEnd.i <= tokens[k + 1].posStart.i
              /\ IF tokens[k].type = "STRING"
                 THEN /\ tokens[k].posEnd.i - tokens[k].posStart.i >= 2
                      /\ source[tokens[k].posStart.i + 1] = "\""
                      /\ source[tokens[k].posEnd.i] = "\""
                 ELSE /\ tokens[k].posEnd.i - tokens[k].posStart.i = Len(tokens[k].value)
                      /\ SubSeq(source, tokens[k].posStart.i + 1, tokens[k].posEnd.i)
                            = tokens[k].value
        /\ tokens[Len(tokens)].posStart = Consumed(Len(source))

\* x // c <newline> /* <newline> */ y := "s" has been lexed: y stands on the third
\* line, after a comment of two lines
C26_Witness ==
    /\ entry = "getTokens" /\ source = Script.Lines /\ result.error = NoError
    /\ Len(tokens) = 6
    /\ tokens[2].value = <<"y">>
    /\ tokens[2].posStart = Position(13, 2, 3)
    /\ tokens[5].type = "STRING" /\ tokens[5].posEnd = Position(21, 2, 11)

RECURSIVE IsTrivia(_)
\* s is whitespace and comments only: a line comment runs to the end of its line,
\* a block comment to the first */ after its /*
IsTrivia(s) ==
    LET closings == {k \in 4..Len(s) : s[k - 1] = "*" /\ s[k] = "/"}
        first == CHOOSE k \in closings : \A j \in closings : k <= j
    IN IF s = <<>> THEN TRUE
       ELSE IF IsSpace(s[1]) THEN IsTrivia(Tail(s))
       ELSE IF StartsWith(s, <<"/", "/">>)
            THEN IsTrivia(SubSeq(s, 3 + Run(s, 3, "."), Len(s)))
       ELSE IF StartsWith(s, <<"/", "*">>) /\ closings # {}
            THEN IsTrivia(SubSeq(s, first + 1, Len(s)))
       ELSE FALSE

\* the source text between the end of token k (the start of the text for k = 0) and
\* the start of the token after it
Gap(k) ==
    SubSeq(source, IF k = 0 THEN 1 ELSE tokens[k].posEnd.i + 1, tokens[k + 1].posStart.i)

\* C27: the source text the lexer discards, before the first token and between
\* one token and the next, is whitespace and comments only, a block comment
\* ending at the first */ after its /*.
C27_OnlyTriviaDiscarded ==
    (entry = "getTokens" /\ result.error = NoError) =>
        \A k \in 0..(Len(tokens) - 1) : IsTrivia(Gap(k))

\* event e of a run whose program Context is top binds the name n in the root
\* table: a top-level assignment that succeeded, or a top-level For loop over n
BindsAtTop(e, top, n) ==
    /\ e.context = top
    /\ \/ /\ e.ev = "exit" /\ e.node.type = "VarAssignNode"
          /\ e.node.identifier.value = n /\ Succeeded(e)
       \/ e.ev = "enter" /\ e.node.type = "ForNode" /\ e.node.varName.value = n

\* in the run with history h that started from the root table before, the k-th
\* event is a top-level read of a name the run has not bound yet: it yields the
\* binding the earlier runs left, or fails when they left none
ReadsEarlierBinding(h, k, top, before) ==
    LET n == h[k].node.identifier.value
    IN (/\ h[k].ev = "exit" /\ h[k].node.type = "VarAccessNode" /\ h[k].context = top
        /\ \A j \in 1..(k - 1) : ~BindsAtTop(h[j], top, n)) =>
           IF n \in DOMAIN before.symbols
           THEN /\ Succeeded(h[k])
                /\ h[k].value = setContext(setPos(copy(before.symbols[n]), h[k].node.posStart,
                                                  h[k].node.posEnd), top)
           ELSE h[k].error # NoError

\* in the run with history h that left the root table after, the k-th event is the
\* last top-level assignment to its name: the table keeps that value
LeavesBinding(h, k, top, after) ==
    LET n == h[k].node.identifier.value
    IN (/\ h[k].ev = "exit" /\ h[k].node.type = "VarAssignNode" /\ h[k].context = top
        /\ Succeeded(h[k])
        /\ \A j \in (k + 1)..Len(h) : ~BindsAtTop(h[j], top, n)) =>
           /\ n \in DOMAIN after.symbols
           /\ after.symbols[n] = h[k].value

Rebound(k) ==
    LET var == log[k].node.varName.value
        table == ctxs[log[k].context].symbolTable
    IN {m \in DOMAIN BodyEnters(k) :
           /\ log[ExitOf(BodyEnters(k)[m])].ev = "exit"
           /\ log[ExitOf(BodyEnters(k)[m])].tables[table].symbols[var]
                 # log[BodyEnters(k)[m]].tables[table].symbols[var]}

\* C29: in a For loop that ended without a failure, whatever the body assigned to
\* the loop variable, the number of iterations is the one start, end and step
\* give, and the iteration after one that rebound the variable starts with the
\* variable bound to the next value of the progression, not to a value derived
\* from the body's assignment.
C29_BodyAssignmentIgnored ==
    \A k \in CompletedFors :
        LET var == log[k].node.varName.value
            table == ctxs[log[k].context].symbolTable
            s == log[ExitOf(ForStart(k))].value.value.num
            e == log[ExitOf(ForEnd(k))].value.value.num
            body == BodyEnters(k)
        IN Rebound(k) # {} =>
              /\ Len(body) = Iterations(s, e, StepOf(k))
              /\ \A m \in Rebound(k) :
                    m < Len(body) =>
                       log[body[m + 1]].tables[table].symbols[var].value
                          = JsNum(s + m * StepOf(k))

\* for i := 1 to 6 step 2 { i := 9 } has ended after three iterations, each of
\* which left i bound to 9
C29_Witness ==
    /\ program = Ast.ForStride /\ Succeeded(result)
    /\ \E k \in CompletedFors :
          /\ Rebound(k) = {1, 2, 3}
          /\ Len(BodyEnters(k)) = 3
          /\ log[BodyEnters(k)[3]].tables[Root].symbols[<<"i">>].value = JsNum(5)

\* the For visits whose start, end and step were evaluated to Numbers and whose
\* body, each time it was evaluated, ended without a failure
SoundFors ==
    {k \in Enters :
        /\ log[k].node.type = "ForNode"
        /\ Succeeded(log[ExitOf(ForStart(k))])
        /\ log[ExitOf(ForStart(k))].value.type = "NUMBER"
        /\ Succeeded(log[ExitOf(ForEnd(k))])
        /\ log[ExitOf(ForEnd(k))].value.type = "NUMBER"
        /\ log[k].node.step # NullNode =>
              /\ Succeeded(log[ExitOf(ForStep(k))])
              /\ log[ExitOf(ForStep(k))].value.type = "NUMBER"
        /\ \A m \in DOMAIN BodyEnters(k) : Succeeded(log[ExitOf(BodyEnters(k)[m])])}

\* C30: a For loop over Numbers whose body never fails ends, after at most
\* MaxIter iterations here, with the value None, whatever its step is.
C30_ForTerminates ==
    \A k \in SoundFors :
        /\ Succeeded(log[ExitOf(k)])
        /\ log[ExitOf(k)].value.type = "NONE"
        /\ Len(BodyEnters(k)) <= MaxIter

====
